---- MODULE Spec2Model ----
(***************************************************************************)
(* A model of the SII decoding pipeline of siirs: the binary SII parser    *)
(* (sii/binary.rs), the value model and identifier codec (sii/value.rs),   *)
(* the AES envelope decryptor (sii/crypt.rs), the SCS archive reader       *)
(* (scs/mod.rs), the text lexer and parser (sii/text.rs) and the index of   *)
(* a save (sii/game.rs).                                                   *)
(*                                                                         *)
(* Byte streams are sequences of bytes (0..255).  A reader is a stream     *)
(* together with the number of bytes consumed so far.  A u32 is kept as    *)
(* its 32-bit two's-complement image (an injective image of the unsigned   *)
(* value, so equality is exact); a u64 is kept as its 8 little-endian      *)
(* bytes.  Strings are sequences of bytes.                                 *)
(*                                                                         *)
(* Nine specifications share the module.   Spec runs Parser::new and       *)
(* Parser::next_block over streams written from short lists of blocks,     *)
(* whole or cut short.  SpecCodec applies the identifier codec to texts.   *)
(* SpecValue applies Value::read_from to a field definition and bytes.     *)
(* SpecCrypt applies the decryptors to envelopes, whole or damaged.        *)
(* SpecArchive loads an archive, opens entries and reads them.  SpecId     *)
(* produces two identifiers, renders and compares them.  SpecLexer calls   *)
(* the text lexer on short streams of bytes.  SpecText runs the text       *)
(* parser over texts written from short lists of structs.  SpecSave runs   *)
(* GameSave::new over binary streams.                                      *)
(***************************************************************************)
EXTENDS Integers, Sequences, FiniteSets, TLC

VARIABLES
    stream,       \* binary parser: the bytes behind the reader
    pos,          \* binary parser: bytes consumed by the reader
    pstate,       \* "start" before Parser::new, then "ready" or new's error
    struct_defs,  \* Parser.struct_defs: schema id -> Schema
    history,      \* what each next_block call returned, in call order
    emitted,      \* the Structs returned so far, in order
    blocks,       \* the blocks the stream was written from
    cut           \* number of bytes missing from the end of the stream

binVars == <<stream, pos, pstate, struct_defs, history, emitted, blocks, cut>>

VARIABLES
    cin,          \* identifier codec: the text given to try_from
    ckind,        \* "string" for EncodedString, "id" for ID, "" when idle
    cenc,         \* the result of try_from, once called
    cdec          \* the result of to_string, once called

codecVars == <<cin, ckind, cenc, cdec>>

VARIABLES
    vfield,       \* ordinal decoding: the field definition as written
    vdef,         \* the StructFieldDef parse_schema's loop read from it
    vbytes,       \* the bytes behind the reader of the value
    vtype,        \* the value_type given to Value::read_from
    vres          \* the result of Value::read_from, once called

valueVars == <<vfield, vdef, vbytes, vtype, vres>>

VARIABLES
    plain,        \* decryption: the plaintext P the envelope was made from
    iv,           \* the IV the envelope was made with
    envelope,     \* the bytes given to the decryptor
    decrypted     \* the result of the decryptor, once called

cryptVars == <<plain, iv, envelope, decrypted>>

VARIABLES
    afile,        \* archive: the bytes of the archive file
    adescs,       \* the descriptors the entry table was written from
    astate,       \* "start" before load_from_file, then "loaded" or its error
    entries,      \* Archive.entries: hash -> Entry
    areader,      \* the EntryReader the last open_entry returned, or its error
    aout,         \* the bytes that reader has handed out so far
    aopened       \* the last open_entry call: its number, its hash, where the file was

archiveVars == <<afile, adescs, astate, entries, areader, aout, aopened>>

VARIABLES
    isrc,         \* identifiers: the two sources, each wire bytes or a text
    ids,          \* the ID each source gave, once produced
    irel          \* the two rendered texts, cmp and == of the two IDs, once compared

idVars == <<isrc, ids, irel>>

VARIABLES
    lsrc,         \* lexer: the bytes behind the Lexer
    lpos,         \* the bytes the Lexer has consumed
    lhist         \* what each Lexer::next() returned, with the position it started at

lexerVars == <<lsrc, lpos, lhist>>

VARIABLES
    tsrc,         \* text parser: the bytes behind the Parser's Lexer
    tdoc,         \* the structs the text was written from
    tstate,       \* start before Parser::new, then parsing or its error
    tlex,         \* the Peekable<Lexer>: bytes consumed and the token peeked
    thist         \* what each Parser::next() returned

textVars == <<tsrc, tdoc, tstate, tlex, thist>>

VARIABLES
    sstate,       \* where GameSave::new is: new, loop, Ok, Err
    objects       \* the index GameSave::new builds, by ID

saveVars == <<sstate, objects>>

vars ==
    <<binVars, codecVars, valueVars, cryptVars, archiveVars, idVars, lexerVars, textVars, saveVars>>

\* What the operations of one component leave alone.
notBin ==
    <<codecVars, valueVars, cryptVars, archiveVars, idVars, lexerVars, textVars, saveVars>>

notCodec ==
    <<binVars, valueVars, cryptVars, archiveVars, idVars, lexerVars, textVars, saveVars>>

notValue ==
    <<binVars, codecVars, cryptVars, archiveVars, idVars, lexerVars, textVars, saveVars>>

notCrypt ==
    <<binVars, codecVars, valueVars, archiveVars, idVars, lexerVars, textVars, saveVars>>

notArchive ==
    <<binVars, codecVars, valueVars, cryptVars, idVars, lexerVars, textVars, saveVars>>

notId ==
    <<binVars, codecVars, valueVars, cryptVars, archiveVars, lexerVars, textVars, saveVars>>

notLexer ==
    <<binVars, codecVars, valueVars, cryptVars, archiveVars, idVars, textVars, saveVars>>

notText ==
    <<binVars, codecVars, valueVars, cryptVars, archiveVars, idVars, lexerVars, saveVars>>

notSave ==
    <<binVars, codecVars, valueVars, cryptVars, archiveVars, idVars, lexerVars, textVars>>

----------------------------------------------------------------------------
\* Results are records with err = "" on success, else the error kind.

\* The ? operator: an error is returned as it is, else the rest goes on with
\* the value read.
Try(r, Rest(_)) == IF r.err # "" THEN r ELSE Rest(r)

\* A match on a result the rest inspects.
Match(r, Rest(_)) == Rest(r)

----------------------------------------------------------------------------
\* Bounds of the model.

MaxBlocks == 3
MaxCalls == 5
MaxCut == 7
MaxPrefix == 2
MaxParts == 3
MaxPairs == 2
MaxValueBytes == 5
MaxPlain == 17
MaxEntries == 2
MaxBuf == 3
MaxOpens == 2
MaxPieces == 3
MaxLexCalls == 4
MaxFields == 3
MaxStructs == 2
MaxTextCalls == 4

----------------------------------------------------------------------------
\* Results of a read: err = "" on success, else the error kind.

Ok(v, p) == [err |-> "", v |-> v, p |-> p]

Err(e, p) == [err |-> e, v |-> <<>>, p |-> p]

\* byteorder's from_le_bytes on 4 bytes, as the 32-bit two's-complement image.
LE32(b) ==
    b[1] + 256 * b[2] + 65536 * b[3]
      + 16777216 * (IF b[4] >= 128 THEN b[4] - 256 ELSE b[4])

\* Mutant: a short read is not noticed and the missing bytes read as zero.
read_exact_zero_filled(s, p, n) ==
    IF n < 0 THEN Err("Io", p)
    ELSE IF p + n <= Len(s) THEN Ok(SubSeq(s, p + 1, p + n), p + n)
    ELSE Ok(SubSeq(s, p + 1, Len(s)) \o [i \in 1..(p + n - Len(s)) |-> 0], Len(s))

\* Read::read_exact of n bytes; n < 0 stands for a u32 of 2^31 or more.
read_exact(s, p, n) ==
    IF n >= 0 /\ p + n <= Len(s)
    THEN Ok(SubSeq(s, p + 1, p + n), p + n)
    ELSE Err("Io", p)

read_u8(s, p) ==
    Try(read_exact(s, p, 1), LAMBDA r : Ok(r.v[1], r.p))

read_u32(s, p) ==
    Try(read_exact(s, p, 4), LAMBDA r : Ok(LE32(r.v), r.p))

read_u64(s, p) == read_exact(s, p, 8)

\* String::from_utf8 on the model's bytes: bytes below 0x80 are ASCII, and
\* the only other byte the model's streams hold (0xFF) never occurs in UTF-8.
from_utf8_ok(bs) == \A i \in 1..Len(bs) : bs[i] < 128

String_read_from(s, p) ==
    Try(read_u32(s, p), LAMBDA l :
    Try(read_exact(s, l.p, l.v), LAMBDA b :
    IF from_utf8_ok(b.v) THEN b ELSE Err("InvalidString", b.p)))

bool_read_from(s, p) ==
    Try(read_u8(s, p), LAMBDA r : Ok(r.v # 0, r.p))

----------------------------------------------------------------------------
\* HashMap: a function on the set of its keys; insert replaces.

EmptyMap == [x \in {} |-> 0]

Insert(m, k, v) == [x \in (DOMAIN m) \cup {k} |-> IF x = k THEN v ELSE m[x]]

\* Option<T>
None == [some |-> FALSE, t |-> EmptyMap]

Some(t) == [some |-> TRUE, t |-> t]

----------------------------------------------------------------------------
\* sii/value.rs: the readers of the value model.

\* impl ReadFrom for OrdinalStringTable: len pairs of (u32 ordinal, String).
RECURSIVE OrdinalEntries(_, _, _, _)
OrdinalEntries(s, p, n, out) ==
    IF n = 0 THEN Ok(out, p)
    ELSE Try(read_u32(s, p), LAMBDA o :
         Try(String_read_from(s, o.p), LAMBDA str :
         OrdinalEntries(s, str.p, n - 1, Insert(out, o.v, str.v))))

OrdinalStringTable_read_from(s, p) ==
    Try(read_u32(s, p), LAMBDA l : OrdinalEntries(s, l.p, l.v, EmptyMap))

\* The u64 parts of a Named ID.
RECURSIVE IDParts(_, _, _, _)
IDParts(s, p, n, parts) ==
    IF n = 0 THEN Ok(parts, p)
    ELSE Try(read_u64(s, p), LAMBDA r :
         IDParts(s, r.p, n - 1, Append(parts, r.v)))

Nameless(u) == [kind |-> "Nameless", parts |-> <<u>>]

Named(parts) == [kind |-> "Named", parts |-> parts]

NamelessMarker == 255

\* impl ReadFrom for ID
ID_read_from(s, p) ==
    Try(read_u8(s, p), LAMBDA l :
    IF l.v = NamelessMarker
    THEN Try(read_u64(s, l.p), LAMBDA u : Ok(Nameless(u.v), u.p))
    ELSE Try(IDParts(s, l.p, l.v, <<>>), LAMBDA ps : Ok(Named(ps.v), ps.p)))

\* The wire shapes of the elements: a tuple of n little-endian numbers of
\* w bytes each (u16, i32, u32, f32, i64, u64, EncodedString and the def_vec!
\* tuples), a String, a bool or an ID.
Fixed(w, n) == [k |-> "fixed", w |-> w, n |-> n]

StringElem == [k |-> "string", w |-> 0, n |-> 0]

BoolElem == [k |-> "bool", w |-> 0, n |-> 0]

IDElem == [k |-> "id", w |-> 0, n |-> 0]

RECURSIVE TupleParts(_, _, _, _, _)
TupleParts(s, p, w, n, acc) ==
    IF n = 0 THEN Ok(acc, p)
    ELSE Try(read_exact(s, p, w), LAMBDA r :
         TupleParts(s, r.p, w, n - 1, Append(acc, r.v)))

Elem_read_from(s, p, e) ==
    CASE e.k = "string" -> String_read_from(s, p)
      [] e.k = "bool" -> bool_read_from(s, p)
      [] e.k = "id" -> ID_read_from(s, p)
      [] OTHER -> TupleParts(s, p, e.w, e.n, <<>>)

\* impl<T> ReadFrom for Vec<T>: a u32 count, then that many elements.
RECURSIVE VecElems(_, _, _, _, _)
VecElems(s, p, e, n, vals) ==
    IF n = 0 THEN Ok(vals, p)
    ELSE Try(Elem_read_from(s, p, e), LAMBDA r :
         VecElems(s, r.p, e, n - 1, Append(vals, r.v)))

Vec_read_from(s, p, e) ==
    Try(read_u32(s, p), LAMBDA l : VecElems(s, l.p, e, l.v, <<>>))

\* The match of Value::read_from: type code -> variant, element, array or not.
T(variant, e, arr) == [variant |-> variant, e |-> e, arr |-> arr]

ValueTypes ==
    (1 :> T("String", StringElem, FALSE)) @@
    (2 :> T("StringArray", StringElem, TRUE)) @@
    (3 :> T("EncodedString", Fixed(8, 1), FALSE)) @@
    (4 :> T("EncodedStringArray", Fixed(8, 1), TRUE)) @@
    (5 :> T("Single", Fixed(4, 1), FALSE)) @@
    (6 :> T("SingleArray", Fixed(4, 1), TRUE)) @@
    (7 :> T("Vec2s", Fixed(4, 2), FALSE)) @@
    (9 :> T("Vec3s", Fixed(4, 3), FALSE)) @@
    (10 :> T("Vec3sArray", Fixed(4, 3), TRUE)) @@
    (17 :> T("Vec3i", Fixed(4, 3), FALSE)) @@
    (18 :> T("Vec3iArray", Fixed(4, 3), TRUE)) @@
    (23 :> T("Vec4s", Fixed(4, 4), FALSE)) @@
    (24 :> T("Vec4sArray", Fixed(4, 4), TRUE)) @@
    (25 :> T("Vec8s", Fixed(4, 8), FALSE)) @@
    (26 :> T("Vec8sArray", Fixed(4, 8), TRUE)) @@
    (37 :> T("Int32", Fixed(4, 1), FALSE)) @@
    (38 :> T("Int32Array", Fixed(4, 1), TRUE)) @@
    (39 :> T("UInt32", Fixed(4, 1), FALSE)) @@
    (40 :> T("UInt32Array", Fixed(4, 1), TRUE)) @@
    (43 :> T("UInt16", Fixed(2, 1), FALSE)) @@
    (44 :> T("UInt16Array", Fixed(2, 1), TRUE)) @@
    (47 :> T("UInt32", Fixed(4, 1), FALSE)) @@
    (49 :> T("Int64", Fixed(8, 1), FALSE)) @@
    (50 :> T("Int64Array", Fixed(8, 1), TRUE)) @@
    (51 :> T("UInt64", Fixed(8, 1), FALSE)) @@
    (52 :> T("UInt64Array", Fixed(8, 1), TRUE)) @@
    (53 :> T("ByteBool", BoolElem, FALSE)) @@
    (54 :> T("ByteBoolArray", BoolElem, TRUE)) @@
    (57 :> T("ID", IDElem, FALSE)) @@
    (58 :> T("IDArray", IDElem, TRUE)) @@
    (59 :> T("ID", IDElem, FALSE)) @@
    (60 :> T("IDArray", IDElem, TRUE)) @@
    (61 :> T("ID", IDElem, FALSE))

OrdinalType == 55

Val(variant, v) == [variant |-> variant, v |-> v]

\* Mutant: an ordinal the table lacks decodes to the empty string.
read_ordinal_string_or_empty(s, p, table) ==
    Try(read_u32(s, p), LAMBDA o :
    IF table.some
    THEN IF o.v \in DOMAIN table.t
         THEN Ok(Val("OrdinalString", table.t[o.v]), o.p)
         ELSE Ok(Val("OrdinalString", <<>>), o.p)
    ELSE Err("MissingOrdinalTable", o.p))

\* Value::read_ordinal_string
read_ordinal_string(s, p, table) ==
    Try(read_u32(s, p), LAMBDA o :
    IF table.some
    THEN IF o.v \in DOMAIN table.t
         THEN Ok(Val("OrdinalString", table.t[o.v]), o.p)
         ELSE Err("MissingOrdinalEntry", o.p)
    ELSE Err("MissingOrdinalTable", o.p))

\* One arm of the match: an array of elements or a single element.
Typed_read_from(s, p, t) ==
    IF t.arr THEN Vec_read_from(s, p, t.e) ELSE Elem_read_from(s, p, t.e)

\* Mutant: a value of an unknown type is skipped as an empty value.
Value_read_from_skip_unknown(s, p, value_type, ordinal_table) ==
    IF value_type = OrdinalType THEN read_ordinal_string(s, p, ordinal_table)
    ELSE IF value_type \in DOMAIN ValueTypes
    THEN Try(Typed_read_from(s, p, ValueTypes[value_type]), LAMBDA r :
         Ok(Val(ValueTypes[value_type].variant, r.v), r.p))
    ELSE Ok(Val("Unknown", <<>>), p)

\* Value::read_from
Value_read_from(s, p, value_type, ordinal_table) ==
    IF value_type = OrdinalType THEN read_ordinal_string(s, p, ordinal_table)
    ELSE IF value_type \in DOMAIN ValueTypes
    THEN Try(Typed_read_from(s, p, ValueTypes[value_type]), LAMBDA r :
         Ok(Val(ValueTypes[value_type].variant, r.v), r.p))
    ELSE Err("UnsupportedValueType", p)

----------------------------------------------------------------------------
\* sii/value.rs: the identifier codec.  A u64 is its 8 little-endian bytes.

Zero64 == <<0, 0, 0, 0, 0, 0, 0, 0>>

\* u * 38 + d on 64 bits: the bytes of the product from byte i on, followed
\* by the carry out of the high byte.
RECURSIVE MulAddFrom(_, _, _)
MulAddFrom(u, i, carry) ==
    IF i > 8 THEN <<carry>>
    ELSE LET x == u[i] * 38 + carry IN
         <<x % 256>> \o MulAddFrom(u, i + 1, x \div 256)

\* out * 38 + d: the wrapped value and whether it overflowed 64 bits.
MulAdd38(u, d) ==
    LET m == MulAddFrom(u, 1, d) IN
    [v |-> SubSeq(m, 1, 8), overflow |-> m[9] # 0]

\* u / 38 and u % 38 on 64 bits, by long division from the high byte: the
\* quotient's bytes 1..i and the remainder, given the remainder carried in.
RECURSIVE DivModFrom(_, _, _)
DivModFrom(u, i, rem) ==
    IF i = 0 THEN [q |-> <<>>, r |-> rem]
    ELSE LET x == rem * 256 + u[i]
             low == DivModFrom(u, i - 1, x % 38)
         IN [q |-> Append(low.q, x \div 38), r |-> low.r]

DivMod38(u) == DivModFrom(u, 8, 0)

\* EncodedString::CHARTABLE = b"0123456789abcdefghijklmnopqrstuvwxyz_"
CHARTABLE ==
    [i \in 1..10 |-> 47 + i] \o [i \in 1..26 |-> 96 + i] \o <<95>>

\* Mutant: the comparison is made on the bytes as they are.
to_ascii_uppercase_missing(c) == c

\* u8::to_ascii_uppercase
to_ascii_uppercase(c) == IF c >= 97 /\ c <= 122 THEN c - 32 ELSE c

\* slice::binary_search_by over CHARTABLE with the comparison of try_from:
\* the index (from 0) of the entry equal to c ignoring case, or -1.
RECURSIVE BinarySearch(_, _, _)
BinarySearch(c, left, right) ==
    IF left >= right THEN -1
    ELSE LET mid == left + (right - left) \div 2
             it == to_ascii_uppercase(CHARTABLE[mid + 1])
             cu == to_ascii_uppercase(c)
         IN IF it = cu THEN mid
            ELSE IF it < cu THEN BinarySearch(c, mid + 1, right)
            ELSE BinarySearch(c, left, mid)

chartable_search(c) == BinarySearch(c, 0, Len(CHARTABLE))

MaxEncodedLen == 12

\* The loop of EncodedString::try_from: the characters, last to first.  An
\* overflow of out (a panic in a debug build, a wrapped value otherwise) is
\* reported as such.
RECURSIVE EncodeFrom(_, _, _)
EncodeFrom(value, i, out) ==
    IF i = 0 THEN [err |-> "", v |-> out, overflow |-> FALSE]
    ELSE LET idx == chartable_search(value[i]) IN
         IF idx < 0 THEN [err |-> "UnexpectedChar", v |-> Zero64, overflow |-> FALSE]
         ELSE LET m == MulAdd38(out, idx + 1) IN
              IF m.overflow THEN [err |-> "Overflow", v |-> m.v, overflow |-> TRUE]
              ELSE EncodeFrom(value, i - 1, m.v)

\* Mutant: one character more is let through.
EncodedString_try_from_13(value) ==
    IF Len(value) > MaxEncodedLen + 1
    THEN [err |-> "TooLong", v |-> Zero64, overflow |-> FALSE]
    ELSE EncodeFrom(value, Len(value), Zero64)

\* impl TryFrom<&str> for EncodedString
EncodedString_try_from(value) ==
    IF Len(value) > MaxEncodedLen
    THEN [err |-> "TooLong", v |-> Zero64, overflow |-> FALSE]
    ELSE EncodeFrom(value, Len(value), Zero64)

\* impl ToString for EncodedString.  s % 38 - 1 is computed on u64: with a
\* remainder of 0 the subtraction overflows (a panic, or an index past the
\* table, which panics as well).
RECURSIVE DecodeFrom(_)
DecodeFrom(s) ==
    IF s = Zero64 THEN [err |-> "", v |-> <<>>]
    ELSE LET d == DivMod38(s) IN
         IF d.r = 0 THEN [err |-> "Panic", v |-> <<>>]
         ELSE LET rest == DecodeFrom(d.q) IN
              IF rest.err # "" THEN rest
              ELSE [err |-> "", v |-> <<CHARTABLE[(d.r - 1) + 1]>> \o rest.v]

EncodedString_to_string(u) == DecodeFrom(u)

Dot == 46

\* str::split("."): the pieces between the dots; always at least one.
RECURSIVE SplitFrom(_, _, _, _)
SplitFrom(str, i, cur, acc) ==
    IF i > Len(str) THEN Append(acc, cur)
    ELSE IF str[i] = Dot THEN SplitFrom(str, i + 1, <<>>, Append(acc, cur))
    ELSE SplitFrom(str, i + 1, Append(cur, str[i]), acc)

split(str) == SplitFrom(str, 1, <<>>, <<>>)

\* Mutant: the pieces are put together without the dots.
RECURSIVE join_without_dots(_)
join_without_dots(strs) ==
    IF strs = <<>> THEN <<>> ELSE strs[1] \o join_without_dots(Tail(strs))

\* [String]::join(".")
RECURSIVE join(_)
join(strs) ==
    IF strs = <<>> THEN <<>>
    ELSE IF Len(strs) = 1 THEN strs[1]
    ELSE strs[1] \o <<Dot>> \o join(Tail(strs))

\* "_nameless"
NamelessPrefix == <<95, 110, 97, 109, 101, 108, 101, 115, 115>>

starts_with(str, prefix) ==
    Len(str) >= Len(prefix) /\ SubSeq(str, 1, Len(prefix)) = prefix

\* The collect of ID::try_from: the pieces encoded, or the first error.
RECURSIVE EncodePieces(_, _, _)
EncodePieces(pieces, i, acc) ==
    IF i > Len(pieces) THEN [err |-> "", v |-> acc, overflow |-> FALSE]
    ELSE LET e == EncodedString_try_from(pieces[i]) IN
         IF e.err # "" THEN [err |-> e.err, v |-> <<>>, overflow |-> FALSE]
         ELSE EncodePieces(pieces, i + 1, Append(acc, e.v))

\* Mutant: the test for the `_nameless` prefix is left out.
ID_try_from_any(idstr) ==
    LET pieces == EncodePieces(split(idstr), 1, <<>>) IN
    IF pieces.err # "" THEN pieces
    ELSE IF pieces.v = <<>>
         THEN [err |-> "EmptyID", v |-> <<>>, overflow |-> FALSE]
         ELSE [err |-> "", v |-> Named(pieces.v), overflow |-> FALSE]

\* impl TryFrom<&str> for ID
ID_try_from(idstr) ==
    IF starts_with(idstr, NamelessPrefix)
    THEN [err |-> "NamelessIdInTextParse", v |-> <<>>, overflow |-> FALSE]
    ELSE LET pieces == EncodePieces(split(idstr), 1, <<>>) IN
         IF pieces.err # "" THEN pieces
         ELSE IF pieces.v = <<>>
              THEN [err |-> "EmptyID", v |-> <<>>, overflow |-> FALSE]
              ELSE [err |-> "", v |-> Named(pieces.v), overflow |-> FALSE]

\* The map of ID::to_string over the parts of a Named ID.
RECURSIVE DecodeParts(_, _, _)
DecodeParts(parts, i, acc) ==
    IF i > Len(parts) THEN [err |-> "", v |-> acc]
    ELSE LET d == EncodedString_to_string(parts[i]) IN
         IF d.err # "" THEN d
         ELSE DecodeParts(parts, i + 1, Append(acc, d.v))

\* One lowercase hexadecimal digit, as a character.
HexDigit(d) == IF d < 10 THEN 48 + d ELSE 87 + d

\* format!("{:x}", b) of a byte: no leading zero.
LowerHex(b) ==
    IF b < 16 THEN <<HexDigit(b)>> ELSE <<HexDigit(b \div 16), HexDigit(b % 16)>>

\* format!("{:02x}", b) of a byte: always two digits.
LowerHex02(b) == <<HexDigit(b \div 16), HexDigit(b % 16)>>

\* Mutant: the two bytes of a group change places.
NamelessGroup_swapped(bytes, k) ==
    <<Dot>> \o LowerHex(bytes[2 * k + 2]) \o LowerHex02(bytes[2 * k + 1])

\* One group of the Nameless arm: ".{:x}{:02x}" of bytes[2k] and bytes[2k+1]
\* of id.to_le_bytes(), k counted from 0.
NamelessGroup(bytes, k) ==
    <<Dot>> \o LowerHex(bytes[2 * k + 1]) \o LowerHex02(bytes[2 * k + 2])

\* impl ToString for ID.
ID_to_string(id) ==
    IF id.kind = "Nameless"
    THEN [err |-> "",
          v |-> NamelessPrefix \o NamelessGroup(id.parts[1], 0)
                  \o NamelessGroup(id.parts[1], 1)
                  \o NamelessGroup(id.parts[1], 2)
                  \o NamelessGroup(id.parts[1], 3)]
    ELSE LET strs == DecodeParts(id.parts, 1, <<>>) IN
         IF strs.err # "" THEN strs ELSE [err |-> "", v |-> join(strs.v)]

----------------------------------------------------------------------------
\* sii/binary.rs: the binary parser.

SII_SIGNATURE == 1229542210   \* 0x49495342

StructFieldDef(value_type, name, ordinal_table) ==
    [value_type |-> value_type, name |-> name, ordinal_table |-> ordinal_table]

Schema(id, name, fields) == [id |-> id, name |-> name, fields |-> fields]

Struct(id, struct_name, fields) ==
    [id |-> id, struct_name |-> struct_name, fields |-> fields]

\* Mutant: only version 3 is accepted.
Parser_new_v3_only(s) ==
    Try(read_u32(s, 0), LAMBDA signature :
    IF signature.v # SII_SIGNATURE THEN Err("BadMagic", signature.p)
    ELSE Try(read_u32(s, signature.p), LAMBDA version :
         IF version.v # 3
         THEN Err("UnsupportedVersion", version.p)
         ELSE Ok(EmptyMap, version.p)))

\* Parser::new: the reader position and the error, "" when a parser is built.
Parser_new(s) ==
    Try(read_u32(s, 0), LAMBDA signature :
    IF signature.v # SII_SIGNATURE THEN Err("BadMagic", signature.p)
    ELSE Try(read_u32(s, signature.p), LAMBDA version :
         IF version.v # 2 /\ version.v # 3
         THEN Err("UnsupportedVersion", version.p)
         ELSE Ok(EmptyMap, version.p)))

\* The loop of parse_schema: field definitions up to the 0 terminator.
RECURSIVE FieldDefs(_, _, _)
FieldDefs(s, p, fields) ==
    Try(read_u32(s, p), LAMBDA value_type :
    IF value_type.v = 0 THEN Ok(fields, value_type.p)
    ELSE Try(String_read_from(s, value_type.p), LAMBDA name :
         IF value_type.v = OrdinalType
         THEN Try(OrdinalStringTable_read_from(s, name.p), LAMBDA t :
              FieldDefs(s, t.p,
                        Append(fields,
                               StructFieldDef(value_type.v, name.v, Some(t.v)))))
         ELSE FieldDefs(s, name.p,
                        Append(fields,
                               StructFieldDef(value_type.v, name.v, None)))))

\* Parser::parse_schema: Ok(None) at the end marker, else Ok(Some(schema)).
parse_schema(s, p) ==
    Try(bool_read_from(s, p), LAMBDA more :
    IF ~more.v THEN Ok(None, more.p)
    ELSE Try(read_u32(s, more.p), LAMBDA id :
         Try(String_read_from(s, id.p), LAMBDA name :
         Try(FieldDefs(s, name.p, <<>>), LAMBDA fields :
         Ok(Some(Schema(id.v, name.v, fields.v)), fields.p)))))

\* The loop of parse_struct: one value per field definition, in order.
RECURSIVE FieldValues(_, _, _, _, _)
FieldValues(s, p, fields, i, data) ==
    IF i > Len(fields) THEN Ok(data, p)
    ELSE Try(Value_read_from(s, p, fields[i].value_type, fields[i].ordinal_table),
             LAMBDA value :
             FieldValues(s, value.p, fields, i + 1,
                         Insert(data, fields[i].name, value.v)))

\* Mutant: the field definitions are visited last to first.
RECURSIVE FieldValuesReversed(_, _, _, _, _)
FieldValuesReversed(s, p, fields, i, data) ==
    IF i > Len(fields) THEN Ok(data, p)
    ELSE Try(Value_read_from(s, p, fields[Len(fields) + 1 - i].value_type,
                             fields[Len(fields) + 1 - i].ordinal_table),
             LAMBDA value :
             FieldValuesReversed(s, value.p, fields, i + 1,
                                 Insert(data, fields[Len(fields) + 1 - i].name,
                                        value.v)))

read_fields_reversed(s, p, fields) == FieldValuesReversed(s, p, fields, 1, EmptyMap)

\* Mutant: a missing schema is taken to be an empty one.
struct_def_or_default(defs, struct_id) ==
    IF struct_id \in DOMAIN defs THEN Some(defs[struct_id])
    ELSE Some(Schema(struct_id, <<>>, <<>>))

\* self.struct_defs.get(&struct_id)
struct_defs_get(defs, struct_id) ==
    IF struct_id \in DOMAIN defs THEN Some(defs[struct_id]) ELSE None

\* The fields of a record, read under its schema.
read_fields(s, p, fields) == FieldValues(s, p, fields, 1, EmptyMap)

\* Parser::parse_struct
parse_struct(s, p, defs, struct_id) ==
    IF ~struct_defs_get(defs, struct_id).some THEN Err("UnknownSchema", p)
    ELSE Try(ID_read_from(s, p), LAMBDA block_id :
         Try(read_fields(s, block_id.p, struct_defs_get(defs, struct_id).t.fields),
             LAMBDA data :
             Ok(Struct(block_id.v, struct_defs_get(defs, struct_id).t.name, data.v),
                data.p)))

\* Mutant: the registry holds the schema read last and no other.
struct_defs_insert_alone(defs, schema) == Insert(EmptyMap, schema.id, schema)

\* Mutant: a schema id that is already registered keeps its first schema.
struct_defs_keep_first(defs, schema) ==
    IF schema.id \in DOMAIN defs THEN defs ELSE Insert(defs, schema.id, schema)

\* self.struct_defs.insert(block.id, block.clone())
struct_defs_insert(defs, schema) == Insert(defs, schema.id, schema)

\* What next_block returns and leaves behind.
Outcome(kind, err, v, p, defs, block_type) ==
    [kind |-> kind, err |-> err, v |-> v, p |-> p, defs |-> defs,
     block_type |-> block_type]

\* Parser::next_block on reader (s, p) with schema registry defs.
Parser_next_block(s, p, defs) ==
    Match(read_u32(s, p), LAMBDA block_type :
    IF block_type.err # ""
    THEN Outcome("Err", block_type.err, <<>>, block_type.p, defs, -1)
    ELSE IF block_type.v = 0
    THEN Match(parse_schema(s, block_type.p), LAMBDA struct_def :
         IF struct_def.err # ""
         THEN Outcome("Err", struct_def.err, <<>>, struct_def.p, defs, 0)
         ELSE IF struct_def.v.some
              THEN Outcome("Schema", "", struct_def.v.t, struct_def.p,
                           struct_defs_insert(defs, struct_def.v.t), 0)
              ELSE Outcome("None", "", <<>>, struct_def.p, defs, 0))
    ELSE Match(parse_struct(s, block_type.p, defs, block_type.v), LAMBDA st :
         IF st.err # ""
         THEN Outcome("Err", st.err, <<>>, st.p, defs, block_type.v)
         ELSE Outcome("Struct", "", st.v, st.p, defs, block_type.v)))

----------------------------------------------------------------------------
\* The writer of binary SII streams: the streams the parser is run on.

W32(n) ==
    <<n % 256, (n \div 256) % 256, (n \div 65536) % 256, (n \div 16777216) % 256>>

WString(bs) == W32(Len(bs)) \o bs

RECURSIVE Concat(_)
Concat(ss) == IF ss = <<>> THEN <<>> ELSE Head(ss) \o Concat(Tail(ss))

WID(id) ==
    IF id.kind = "Nameless" THEN <<255>> \o id.parts[1]
    ELSE <<Len(id.parts)>> \o Concat(id.parts)

\* A written ordinal table is a list of <<ordinal, string>> pairs.
WTable(pairs) ==
    W32(Len(pairs))
      \o Concat([i \in 1..Len(pairs) |-> W32(pairs[i][1]) \o WString(pairs[i][2])])

WField(f) ==
    W32(f.value_type) \o WString(f.name)
      \o (IF f.value_type = 55 THEN WTable(f.table) ELSE <<>>)

WSchema(b) ==
    W32(0) \o <<1>> \o W32(b.id) \o WString(b.name)
      \o Concat([i \in 1..Len(b.fields) |-> WField(b.fields[i])]) \o W32(0)

EndMarker == W32(0) \o <<0>>

Header(version) == <<66, 83, 73, 73>> \o W32(version)

\* The schema block in force for id k when block i is written (0: none).
LastSchema(bl, i, k) ==
    LET js == {j \in 1..(i - 1) : bl[j].b = "schema" /\ bl[j].id = k} IN
    IF js = {} THEN 0 ELSE CHOOSE j \in js : \A x \in js : x <= j

\* The string a written table gives an ordinal: its last pair for it.
TableLookup(pairs, o) ==
    LET js == {j \in 1..Len(pairs) : pairs[j][1] = o} IN
    IF js = {} THEN <<-1>> ELSE pairs[CHOOSE j \in js : \A x \in js : x <= j][2]

\* The value number sv (1 or 2) of a field, as written and as a Value.
SampleBytes(f, sv) ==
    CASE f.value_type = 1 -> WString(IF sv = 1 THEN <<104, 105>> ELSE <<>>)
      [] f.value_type = 39 -> W32(sv)
      [] f.value_type = 53 -> <<sv - 1>>
      [] f.value_type = 55 -> W32(sv)
      [] f.value_type = 52 -> W32(sv) \o Concat([i \in 1..sv |-> <<i, 0, 0, 0, 0, 0, 0, 0>>])
      [] OTHER -> <<>>

SampleValue(f, sv) ==
    CASE f.value_type = 1 -> Val("String", IF sv = 1 THEN <<104, 105>> ELSE <<>>)
      [] f.value_type = 39 -> Val("UInt32", <<W32(sv)>>)
      [] f.value_type = 53 -> Val("ByteBool", sv = 2)
      [] f.value_type = 55 -> Val("OrdinalString", TableLookup(f.table, sv))
      [] f.value_type = 52 ->
           Val("UInt64Array", [i \in 1..sv |-> << <<i, 0, 0, 0, 0, 0, 0, 0>> >>])
      [] OTHER -> Val("?", <<>>)

\* Whether the parser is able to decode value sv of field f.
SampleDecodes(f, sv) ==
    /\ f.value_type \in {1, 39, 52, 53, 55}
    /\ f.value_type = 55 => TableLookup(f.table, sv) # <<-1>>

WData(bl, i) ==
    LET j == LastSchema(bl, i, bl[i].k) IN
    W32(bl[i].k) \o WID(bl[i].id)
      \o (IF j = 0 THEN <<>>
          ELSE Concat([x \in 1..Len(bl[j].fields) |->
                         SampleBytes(bl[j].fields[x], bl[i].sv)]))

WBlock(bl, i) == IF bl[i].b = "schema" THEN WSchema(bl[i]) ELSE WData(bl, i)

WStream(bl) == Header(3) \o Concat([i \in 1..Len(bl) |-> WBlock(bl, i)]) \o EndMarker

\* The Struct that data block i of bl stands for.
Decodable(bl, i) ==
    LET j == LastSchema(bl, i, bl[i].k) IN
    /\ j # 0
    /\ \A x \in 1..Len(bl[j].fields) : SampleDecodes(bl[j].fields[x], bl[i].sv)

ExpectedStruct(bl, i) ==
    LET sc == bl[LastSchema(bl, i, bl[i].k)]
        names == {sc.fields[x].name : x \in 1..Len(sc.fields)}
        last(n) == CHOOSE x \in 1..Len(sc.fields) :
                     /\ sc.fields[x].name = n
                     /\ \A y \in 1..Len(sc.fields) : sc.fields[y].name = n => y <= x
    IN Struct(bl[i].id, sc.name,
              [n \in names |-> SampleValue(sc.fields[last(n)], bl[i].sv)])

\* The menu the written blocks are drawn from.
WFieldDef(vt, name, table) == [value_type |-> vt, name |-> name, table |-> table]

WS(id, name, fields) == [b |-> "schema", id |-> id, name |-> name, fields |-> fields]

WD(k, id, sv) == [b |-> "data", k |-> k, id |-> id, sv |-> sv]

SchemaMenu ==
    { WS(1, <<97>>, <<WFieldDef(39, <<120>>, <<>>)>>),
      WS(1, <<98>>, <<WFieldDef(1, <<115>>, <<>>), WFieldDef(53, <<121>>, <<>>)>>),
      WS(2, <<99>>, <<WFieldDef(55, <<111>>, << <<1, <<112>> >>, <<1, <<113>> >> >>)>>),
      WS(3, <<117>>, <<WFieldDef(52, <<120>>, <<>>), WFieldDef(99, <<122>>, <<>>)>>),
      WS(2, <<100>>, <<WFieldDef(39, <<120>>, <<>>), WFieldDef(53, <<120>>, <<>>)>>) }

DataMenu ==
    { WD(1, Named(<< <<12, 0, 0, 0, 0, 0, 0, 0>> >>), 1),
      WD(1, Nameless(<<1, 2, 3, 4, 5, 6, 7, 8>>), 2),
      WD(2, Named(<< <<12, 0, 0, 0, 0, 0, 0, 0>>, <<13, 0, 0, 0, 0, 0, 0, 0>> >>), 1),
      WD(2, Named(<<>>), 2),
      WD(3, Named(<< <<12, 0, 0, 0, 0, 0, 0, 0>> >>), 1) }

BlockMenu == SchemaMenu \cup DataMenu

BlockLists == UNION {[1..n -> BlockMenu] : n \in 0..MaxBlocks}

\* Headers, good and bad, for Parser::new.
SignatureMenu ==
    { <<66, 83, 73, 73>>, <<73, 73, 83, 66>>, <<66, 83, 73, 74>>,
      <<67, 83, 73, 73>>, <<0, 0, 0, 0>> }

VersionMenu ==
    { <<0, 0, 0, 0>>, <<1, 0, 0, 0>>, <<2, 0, 0, 0>>, <<3, 0, 0, 0>>,
      <<4, 0, 0, 0>>, <<0, 0, 0, 3>>, <<3, 1, 0, 0>>, <<2, 0, 0, 255>> }

----------------------------------------------------------------------------
\* The binary parser as a state machine.

InitWritten ==
    \E bl \in BlockLists, c \in 0..MaxCut :
        /\ blocks = bl
        /\ cut = c
        /\ stream = SubSeq(WStream(bl), 1, Len(WStream(bl)) - c)

InitHeaders ==
    \E sig \in SignatureMenu, ver \in VersionMenu, n \in 0..13 :
        /\ blocks = <<>>
        /\ cut = 13 - n
        /\ stream = SubSeq(sig \o ver \o EndMarker, 1, n)

InitBin ==
    /\ \/ InitWritten
       \/ InitHeaders
    /\ pos = 0
    /\ pstate = "start"
    /\ struct_defs = EmptyMap
    /\ history = <<>>
    /\ emitted = <<>>

\* Parser::new(reader)
new ==
    /\ pstate = "start"
    /\ LET r == Parser_new(stream) IN
        /\ pstate' = IF r.err = "" THEN "ready" ELSE r.err
        /\ pos' = r.p
    /\ UNCHANGED <<stream, struct_defs, history, emitted, blocks, cut>>
    /\ UNCHANGED notBin

\* One call of Parser::next_block.  A read that runs into the end of the
\* stream leaves the reader where the read began or at the end of the stream
\* (read_exact does not say how much it consumed).
next_block ==
    /\ pstate = "ready"
    /\ Len(history) < MaxCalls
    /\ LET o == Parser_next_block(stream, pos, struct_defs) IN
        /\ struct_defs' = o.defs
        /\ pos' \in (IF o.err = "Io" THEN {o.p, Len(stream)} ELSE {o.p})
        /\ history' = Append(history,
                             [kind |-> o.kind, err |-> o.err, at |-> pos,
                              block_type |-> o.block_type, ret |-> o.v])
        /\ emitted' = IF o.kind = "Struct" THEN Append(emitted, o.v) ELSE emitted
    /\ UNCHANGED <<stream, pstate, blocks, cut>>
    /\ UNCHANGED notBin

\* The binary parser before any stream is given to it.
IdleBin ==
    /\ stream = <<>>
    /\ pos = 0
    /\ pstate = "idle"
    /\ struct_defs = EmptyMap
    /\ history = <<>>
    /\ emitted = <<>>
    /\ blocks = <<>>
    /\ cut = 0

----------------------------------------------------------------------------
\* The identifier codec as a state machine: a text is encoded, then decoded.

Pending == [err |-> "pending", v |-> <<>>, overflow |-> FALSE]

PendingText == [err |-> "pending", v |-> <<>>]

\* The characters the texts are made of: 0 9 A Z _ a z, and - which is not
\* in the alphabet.
CodecChars == {48, 57, 65, 90, 95, 97, 122, 45}

FillChars == {48, 90, 95, 122}

Prefixes == UNION {[1..n -> CodecChars] : n \in 0..MaxPrefix}

\* A short text followed by a run of one character, up to 13 characters.
StringInputs ==
    {p \o [i \in 1..n |-> f] :
       p \in Prefixes, f \in FillChars, n \in 0..(MaxEncodedLen + 1 - MaxPrefix)}

\* The parts the dotted texts are made of: "", a, A_9, company, _nameless,
\* _Nameless_1, _nameles, zzzzzzzzzzzz.
PartMenu ==
    { <<>>, <<97>>, <<65, 95, 57>>,
      <<99, 111, 109, 112, 97, 110, 121>>,
      NamelessPrefix,
      <<95, 78, 97, 109, 101, 108, 101, 115, 115, 95, 49>>,
      <<95, 110, 97, 109, 101, 108, 101, 115>>,
      [i \in 1..MaxEncodedLen |-> 122] }

IdInputs == {join(ps) : ps \in UNION {[1..n -> PartMenu] : n \in 1..MaxParts}}

InitCodec ==
    /\ \/ \E t \in StringInputs : cin = t /\ ckind = "string"
       \/ \E t \in IdInputs : cin = t /\ ckind = "id"
    /\ cenc = Pending
    /\ cdec = PendingText

IdleCodec ==
    /\ cin = <<>>
    /\ ckind = ""
    /\ cenc = Pending
    /\ cdec = PendingText

\* EncodedString::try_from(cin)
string_to_encoded ==
    /\ ckind = "string"
    /\ cenc.err = "pending"
    /\ cenc' = EncodedString_try_from(cin)
    /\ UNCHANGED <<cin, ckind, cdec>>
    /\ UNCHANGED notCodec

\* EncodedString::to_string of the encoded value
encoded_to_string ==
    /\ ckind = "string"
    /\ cenc.err = ""
    /\ cdec.err = "pending"
    /\ cdec' = EncodedString_to_string(cenc.v)
    /\ UNCHANGED <<cin, ckind, cenc>>
    /\ UNCHANGED notCodec

\* ID::try_from(cin)
id_from_string ==
    /\ ckind = "id"
    /\ cenc.err = "pending"
    /\ cenc' = ID_try_from(cin)
    /\ UNCHANGED <<cin, ckind, cdec>>
    /\ UNCHANGED notCodec

\* ID::to_string of the parsed ID
id_to_string ==
    /\ ckind = "id"
    /\ cenc.err = ""
    /\ cdec.err = "pending"
    /\ cdec' = ID_to_string(cenc.v)
    /\ UNCHANGED <<cin, ckind, cenc>>
    /\ UNCHANGED notCodec

----------------------------------------------------------------------------
\* sii/crypt.rs and crypt.rs: the AES-256-CBC envelope.  The block cipher of
\* the aes crate is stood for by a keyed permutation of 16-byte blocks; the
\* CBC chaining and the PKCS#7 padding of the cbc and cipher crates are
\* modelled as those crates compute them.

SII_ENCRYPTED_SIGNATURE == 1131635539

SII_AES_KEY ==
    << 42, 95, 203, 23, 145, 210, 47, 182, 2, 69, 179, 216, 54, 158, 208, 178,
       194, 115, 113, 86, 63, 191, 31, 60, 158, 223, 107, 17, 130, 90, 93, 10 >>

BlockSize == 16

\* Bitwise exclusive or of two bytes.
RECURSIVE Xor(_, _)
Xor(a, b) ==
    IF a = 0 THEN b
    ELSE IF b = 0 THEN a
    ELSE ((a + b) % 2) + 2 * Xor(a \div 2, b \div 2)

XorBlock(x, y) == [i \in 1..BlockSize |-> Xor(x[i], y[i])]

\* The block cipher: rotate the block by one byte and add the key bytes.
encrypt_block(key, b) ==
    [i \in 1..BlockSize |->
        (b[(i % BlockSize) + 1] + key[i] + key[i + BlockSize]) % 256]

decrypt_block(key, c) ==
    [j \in 1..BlockSize |->
        LET i == IF j = 1 THEN BlockSize ELSE j - 1 IN
        (c[i] + 512 - key[i] - key[i + BlockSize]) % 256]

Block(buf, k) == SubSeq(buf, (k - 1) * BlockSize + 1, k * BlockSize)

\* cbc::Decryptor::decrypt_blocks_mut: block k is decrypted and combined
\* with the ciphertext block before it (the IV for the first).
decrypt_blocks(key, ivec, buf) ==
    Concat([k \in 1..(Len(buf) \div BlockSize) |->
              XorBlock(decrypt_block(key, Block(buf, k)),
                       IF k = 1 THEN ivec ELSE Block(buf, k - 1))])

\* Pkcs7::unpad of the last block: the number of padding bytes, 0 if the
\* padding is malformed.
Pkcs7_unpad(block) ==
    LET n == block[BlockSize] IN
    IF n = 0 \/ n > BlockSize THEN 0
    ELSE IF \A i \in (BlockSize - n + 1)..BlockSize : block[i] = n THEN n
    ELSE 0

\* BlockDecryptMut::decrypt_padded_mut::<Pkcs7>: buf is decrypted in place;
\* the value returned is the slice of buf before the padding.
decrypt_padded_mut(key, ivec, buf) ==
    IF Len(buf) % BlockSize # 0 \/ Len(buf) = 0
    THEN [err |-> "UnpadError", buf |-> buf, slice |-> <<>>]
    ELSE LET out == decrypt_blocks(key, ivec, buf)
             n == Pkcs7_unpad(Block(out, Len(out) \div BlockSize))
         IN IF n = 0 THEN [err |-> "UnpadError", buf |-> out, slice |-> <<>>]
            ELSE [err |-> "", buf |-> out, slice |-> SubSeq(out, 1, Len(out) - n)]

\* Mutant: the declared length has to fit the bytes that follow the header.
read_header_checking_len(s) ==
    LET signature == read_u32(s, 0) IN
    IF signature.err # "" THEN signature
    ELSE IF signature.v # SII_ENCRYPTED_SIGNATURE THEN Err("BadMagic", signature.p)
    ELSE LET hmac == read_exact(s, signature.p, 32) IN
         IF hmac.err # "" THEN hmac
         ELSE LET ivec == read_exact(s, hmac.p, 16) IN
              IF ivec.err # "" THEN ivec
              ELSE LET len == read_u32(s, ivec.p) IN
                   IF len.err # "" THEN len
                   ELSE IF len.v > Len(s) - len.p
                        THEN Err("BadLength", len.p)
                        ELSE Ok(ivec.v, len.p)

\* Decryptor::read_header: the signature, 32 bytes of HMAC, the IV and the
\* declared length, of which only the IV is kept.
read_header(s) ==
    LET signature == read_u32(s, 0) IN
    IF signature.err # "" THEN signature
    ELSE IF signature.v # SII_ENCRYPTED_SIGNATURE THEN Err("BadMagic", signature.p)
    ELSE LET hmac == read_exact(s, signature.p, 32) IN
         IF hmac.err # "" THEN hmac
         ELSE LET ivec == read_exact(s, hmac.p, 16) IN
              IF ivec.err # "" THEN ivec
              ELSE LET len == read_u32(s, ivec.p) IN
                   IF len.err # "" THEN len ELSE Ok(ivec.v, len.p)

\* Decryptor::decrypt: the rest of the reader is decrypted in place and the
\* buffer itself is returned; the slice decrypt_padded_mut returns is dropped.
Decryptor_decrypt(s) ==
    LET h == read_header(s) IN
    IF h.err # "" THEN h
    ELSE LET buf == SubSeq(s, h.p + 1, Len(s))
             d == decrypt_padded_mut(SII_AES_KEY, h.v, buf)
         IN IF d.err # "" THEN Err("DecryptionFailed", Len(s))
            ELSE Ok(d.buf, Len(s))

\* crypt.rs decrypt_sii: the same steps over a byte slice.
crypt_decrypt_sii(file) ==
    LET signature == read_u32(file, 0) IN
    IF signature.err # "" THEN signature
    ELSE IF signature.v # SII_ENCRYPTED_SIGNATURE THEN Err("BadMagic", signature.p)
    ELSE LET hmac == read_exact(file, signature.p, 32) IN
         IF hmac.err # "" THEN hmac
         ELSE LET ivec == read_exact(file, hmac.p, 16) IN
              IF ivec.err # "" THEN ivec
              ELSE LET len == read_u32(file, ivec.p) IN
                   IF len.err # "" THEN len
                   ELSE LET buf == SubSeq(file, len.p + 1, Len(file))
                            d == decrypt_padded_mut(SII_AES_KEY, ivec.v, buf)
                        IN IF d.err # "" THEN Err("DecryptionFailed", Len(file))
                           ELSE Ok(d.buf, Len(file))

----------------------------------------------------------------------------
\* The envelopes the decryptors are given: what the game writes for a
\* plaintext and an IV, whole or damaged.

\* PKCS#7: 1..16 bytes, each the number of bytes added.
Pkcs7_pad(p) ==
    LET n == BlockSize - (Len(p) % BlockSize) IN p \o [i \in 1..n |-> n]

\* CBC encryption of a padded plaintext: the ciphertext blocks 1..k.
RECURSIVE encrypt_blocks(_, _, _, _)
encrypt_blocks(key, ivec, padded, k) ==
    IF k = 0 THEN <<>>
    ELSE LET before == encrypt_blocks(key, ivec, padded, k - 1)
             prev == IF k = 1 THEN ivec ELSE Block(before, k - 1)
         IN before \o encrypt_block(key, XorBlock(Block(padded, k), prev))

Ciphertext(p, ivec) ==
    encrypt_blocks(SII_AES_KEY, ivec, Pkcs7_pad(p), Len(Pkcs7_pad(p)) \div BlockSize)

Envelope(p, ivec) ==
    <<83, 99, 115, 67>> \o [i \in 1..32 |-> 0] \o ivec \o W32(Len(p))
      \o Ciphertext(p, ivec)

\* Plaintexts: runs of bytes a, a + d, a + 2d, ...; among them runs that end
\* in bytes that look like padding.
Plaintexts ==
    {[i \in 1..n |-> (a + d * i) % 256] :
       n \in 0..MaxPlain, a \in {0, 1, 120}, d \in {0, 37}}

IVs == {[i \in 1..BlockSize |-> 0], [i \in 1..BlockSize |-> (17 * i) % 256]}

\* Damage: none, a wrong signature, bytes missing from the end, a changed
\* byte in the last ciphertext block.
Damaged(env, how) ==
    CASE how = "magic" -> <<83, 99, 115, 68>> \o SubSeq(env, 5, Len(env))
      [] how = "short" -> SubSeq(env, 1, Len(env) - 1)
      [] how = "header" -> SubSeq(env, 1, 40)
      [] how = "flip" ->
           SubSeq(env, 1, Len(env) - 2) \o <<(env[Len(env) - 1] + 1) % 256>>
             \o <<env[Len(env)]>>
      [] OTHER -> env

\* The header fields the decryptor reads past: the 32 bytes of HMAC and the
\* declared length of the plaintext.
HeaderSize == 56

Hmacs == {[i \in 1..32 |-> 0], [i \in 1..32 |-> (200 + 3 * i) % 256]}

DeclaredLens(p) == {Len(p), 0, Len(p) + 65536}

\* An envelope with another HMAC and another declared length; an envelope
\* cut short inside the header is left as it is.
Retagged(env, hmac, len) ==
    IF Len(env) < HeaderSize THEN env
    ELSE SubSeq(env, 1, 4) \o hmac \o SubSeq(env, 37, 52) \o W32(len)
           \o SubSeq(env, HeaderSize + 1, Len(env))

PendingBytes == [err |-> "pending", v |-> <<>>, p |-> 0]

InitCrypt ==
    /\ plain \in Plaintexts
    /\ iv \in IVs
    /\ \E how \in {"none", "magic", "short", "header", "flip"} :
        \E hmac \in Hmacs, len \in DeclaredLens(plain) :
          envelope = Retagged(Damaged(Envelope(plain, iv), how), hmac, len)
    /\ decrypted = PendingBytes

IdleCrypt ==
    /\ plain = <<>>
    /\ iv = <<>>
    /\ envelope = <<>>
    /\ decrypted = PendingBytes

\* Decryptor::new(reader).decrypt()
decrypt ==
    /\ envelope # <<>>
    /\ decrypted.err = "pending"
    /\ decrypted' = Decryptor_decrypt(envelope)
    /\ UNCHANGED <<plain, iv, envelope>>
    /\ UNCHANGED notCrypt

\* decrypt_sii(file)
decrypt_sii ==
    /\ envelope # <<>>
    /\ decrypted.err = "pending"
    /\ decrypted' = crypt_decrypt_sii(envelope)
    /\ UNCHANGED <<plain, iv, envelope>>
    /\ UNCHANGED notCrypt

----------------------------------------------------------------------------
\* Value::read_from as a state machine: the loop of parse_schema reads one
\* field definition, then a value is read with that definition's table.

PendingValue == [err |-> "pending", v |-> <<>>, p |-> 0]

\* The pairs the written tables are made of: 0 -> "p", 1 -> "q", 1 -> "r",
\* 256 -> "s".
PairMenu == { <<0, <<112>> >>, <<1, <<113>> >>, <<1, <<114>> >>, <<256, <<115>> >> }

PairLists == UNION {[1..n -> PairMenu] : n \in 0..MaxPairs}

\* The written field definitions: ordinal fields with a table, and fields of
\* other types, which carry none.
FieldMenu ==
    {WFieldDef(OrdinalType, <<111>>, t) : t \in PairLists}
      \cup {WFieldDef(39, <<120>>, <<>>), WFieldDef(1, <<115>>, <<>>)}

ValueInputs == UNION {[1..n -> {0, 1}] : n \in 0..MaxValueBytes}

InitValue ==
    /\ vfield \in FieldMenu
    /\ vdef = <<>>
    /\ vbytes \in ValueInputs
    /\ vtype \in {OrdinalType, vfield.value_type}
    /\ vres = PendingValue

IdleValue ==
    /\ vfield = WFieldDef(0, <<>>, <<>>)
    /\ vdef = <<>>
    /\ vbytes = <<>>
    /\ vtype = 0
    /\ vres = PendingValue

\* The loop of parse_schema over the written definition and its terminator.
field_def ==
    /\ vdef = <<>>
    /\ vfield.value_type # 0
    /\ vdef' = FieldDefs(WField(vfield) \o W32(0), 0, <<>>).v
    /\ UNCHANGED <<vfield, vbytes, vtype, vres>>
    /\ UNCHANGED notValue

\* Value::read_from(reader, vtype, the definition's ordinal_table)
read_value ==
    /\ vdef # <<>>
    /\ vres.err = "pending"
    /\ vres' = Value_read_from(vbytes, 0, vtype, vdef[1].ordinal_table)
    /\ UNCHANGED <<vfield, vdef, vbytes, vtype>>
    /\ UNCHANGED notValue

----------------------------------------------------------------------------
\* scs/mod.rs: the archive.  A hash (u64) is kept as its 8 bytes.

SCS_SIGNATURE == 1396921123

CITYHASH_MARKER == 1128879193

\* read_u32::<BigEndian>
BE32(b) == LE32(<<b[4], b[3], b[2], b[1]>>)

read_u32_be(s, p) ==
    Try(read_exact(s, p, 4), LAMBDA r : Ok(BE32(r.v), r.p))

\* impl TryFrom<u32> for EntryType
EntryType_try_from(value) ==
    CASE value \in {0, 4} -> Ok("UncompressedFile", 0)
      [] value \in {1, 5} -> Ok("UncompressedDirEntries", 0)
      [] value \in {2, 6} -> Ok("CompressedFile", 0)
      [] value \in {3, 7} -> Ok("CompressedDirEntries", 0)
      [] OTHER -> Err("UnknownEntryType", 0)

Entry(hash, offset, unknown, entry_type, crc32, size, zsize) ==
    [hash |-> hash, offset |-> offset, unknown |-> unknown,
     entry_type |-> entry_type, crc32 |-> crc32, size |-> size, zsize |-> zsize]

\* Entry::try_from_reader
Entry_try_from_reader(s, p) ==
    Try(read_u64(s, p), LAMBDA hash :
    Try(read_u32(s, hash.p), LAMBDA offset :
    Try(read_u32(s, offset.p), LAMBDA unknown :
    Try(read_u32(s, unknown.p), LAMBDA type_id :
    Try(EntryType_try_from(type_id.v), LAMBDA entry_type :
    Try(read_u32(s, type_id.p), LAMBDA crc32 :
    Try(read_u32(s, crc32.p), LAMBDA size :
    Try(read_u32(s, size.p), LAMBDA zsize :
    Ok(Entry(hash.v, offset.v, unknown.v, entry_type.v, crc32.v, size.v, zsize.v),
       zsize.p)))))))))

\* entries.insert(e.hash, e)
entries_insert(es, e) == Ok(Insert(es, e.hash, e), 0)

\* The loop of load_from_file: entry_count descriptors from the reader.
RECURSIVE LoadEntries(_, _, _, _)
LoadEntries(s, p, n, es) ==
    IF n = 0 THEN Ok(es, p)
    ELSE Try(Entry_try_from_reader(s, p), LAMBDA e :
         Try(entries_insert(es, e.v), LAMBDA ins :
         LoadEntries(s, e.p, n - 1, ins.v)))

\* Archive::load_from_file.  A seek beyond the end of the file succeeds; the
\* reads after it find no bytes.
Archive_load_from_file(file) ==
    Try(read_u32_be(file, 0), LAMBDA signature :
    IF signature.v # SCS_SIGNATURE THEN Err("BadSignature", signature.p)
    ELSE Try(read_u32(file, signature.p), LAMBDA version :
         Try(read_u32_be(file, version.p), LAMBDA cityhash :
         IF cityhash.v # CITYHASH_MARKER THEN Err("BadCityMarker", cityhash.p)
         ELSE Try(read_u32(file, cityhash.p), LAMBDA entry_count :
              Try(read_u32(file, entry_count.p), LAMBDA entry_offset :
              IF entry_offset.v < 0 \/ entry_count.v < 0
              THEN Err("Io", entry_offset.p)
              ELSE LoadEntries(file, entry_offset.v, entry_count.v, EmptyMap))))))

\* Archive::describe_entry
describe_entry(es, hash) == IF hash \in DOMAIN es THEN Some(es[hash]) ELSE None

\* An UncompressedReader, with the position of the file it borrows.
UncompressedReader(fpos, length, i) ==
    [kind |-> "UncompressedReader", fpos |-> fpos, length |-> length, i |-> i,
     eof |-> FALSE]

NoReader == [kind |-> "", fpos |-> 0, length |-> 0, i |-> 0, eof |-> FALSE]

NotOpened == [n |-> 0, hash |-> 0, fpos |-> 0]

\* Mutant: the file stays where the last reader left it.
seek_stays(fpos, offset) == fpos

\* self.file.seek(SeekFrom::Start(offset)): the new position of the file.
seek(fpos, offset) == offset

\* Mutant: a reader is returned for every entry type.
Archive_open_entry_any_type(es, hash, fpos) ==
    IF ~describe_entry(es, hash).some THEN Err("NoSuchEntry", fpos)
    ELSE Match(describe_entry(es, hash).t, LAMBDA entry :
         CASE entry.entry_type = "CompressedFile" ->
                Ok([NoReader EXCEPT !.kind = "CompressedReader",
                                    !.fpos = seek(fpos, entry.offset)],
                   seek(fpos, entry.offset))
           [] OTHER ->
                Ok(UncompressedReader(seek(fpos, entry.offset), entry.size, 0),
                   seek(fpos, entry.offset)))

\* Archive::open_entry, with the file at fpos before the call: an entry
\* that is found has the file positioned at its offset before its type is
\* looked at; p is the position of the file after the call.
Archive_open_entry(es, hash, fpos) ==
    IF ~describe_entry(es, hash).some THEN Err("NoSuchEntry", fpos)
    ELSE Match(describe_entry(es, hash).t, LAMBDA entry :
         CASE entry.entry_type = "UncompressedFile" ->
                Ok(UncompressedReader(seek(fpos, entry.offset), entry.size, 0),
                   seek(fpos, entry.offset))
           [] entry.entry_type = "CompressedFile" ->
                Ok([NoReader EXCEPT !.kind = "CompressedReader",
                                    !.fpos = seek(fpos, entry.offset)],
                   seek(fpos, entry.offset))
           [] OTHER -> Err("UnsupportedEntryType", seek(fpos, entry.offset)))

\* UncompressedReader::remaining
remaining(reader) == reader.length - reader.i

Min(a, b) == IF a <= b THEN a ELSE b

\* What File::read may return for a buffer of n bytes at position fpos: 0 for
\* an empty buffer or at the end of the file, else any count from 1 up to
\* the bytes that are there.
File_read_counts(file, fpos, n) ==
    IF n = 0 \/ fpos >= Len(file) THEN {0} ELSE 1..Min(n, Len(file) - fpos)

\* Mutant: the reader hands the whole buffer to the file.
UncompressedReader_limit_none(reader, buf_len) == buf_len

\* The first line of UncompressedReader::read: the part of buf that is used.
UncompressedReader_limit(reader, buf_len) == Min(buf_len, remaining(reader))

----------------------------------------------------------------------------
\* The archives the reader is given: a header, six payload bytes at offsets
\* 20..25 and the entry table behind them.

Payload == <<10, 11, 12, 13, 14, 15>>

HashA == <<1, 0, 0, 0, 0, 0, 0, 0>>

HashB == <<2, 0, 0, 0, 0, 0, 0, 128>>

WDesc(hash, offset, type_id, size) ==
    [hash |-> hash, offset |-> offset, type_id |-> type_id, size |-> size]

WEntry(d) ==
    d.hash \o W32(d.offset) \o W32(0) \o W32(d.type_id) \o W32(7) \o W32(d.size)
      \o W32(d.size)

WArchive(descs) ==
    <<83, 67, 83, 35>> \o W32(1) \o <<67, 73, 84, 89>> \o W32(Len(descs))
      \o W32(20 + Len(Payload)) \o Payload
      \o Concat([i \in 1..Len(descs) |-> WEntry(descs[i])])

\* Descriptors: bodies inside the payload, an empty body, a body that runs
\* into the entry table, a body that runs over the end of the file, a body
\* behind the end of the file, and types other than UncompressedFile.
DescMenu ==
    { WDesc(HashA, 20, 0, 6), WDesc(HashA, 22, 4, 3), WDesc(HashB, 21, 0, 0),
      WDesc(HashB, 24, 0, 5), WDesc(HashA, 25, 0, 200), WDesc(HashB, 250, 4, 2),
      WDesc(HashB, 20, 2, 4), WDesc(HashA, 20, 1, 4), WDesc(HashA, 20, 9, 4) }

\* The entry tables written: up to MaxEntries descriptors; past the second,
\* a table repeats descriptors it already holds (there are two hashes).
DescLists ==
    UNION {{d \in [1..n -> DescMenu] : \A i \in 3..n : d[i] \in {d[1], d[2]}} :
           n \in 0..MaxEntries}

\* Damage: none, a wrong signature, a wrong marker, a byte missing from the
\* end, no entry table.
DamagedArchive(file, how) ==
    CASE how = "signature" -> <<83, 67, 83, 36>> \o SubSeq(file, 5, Len(file))
      [] how = "marker" -> SubSeq(file, 1, 8) \o <<67, 73, 84, 90>> \o SubSeq(file, 13, Len(file))
      [] how = "short" -> SubSeq(file, 1, Len(file) - 1)
      [] how = "header" -> SubSeq(file, 1, 18)
      [] OTHER -> file

InitArchive ==
    /\ adescs \in DescLists
    /\ \E how \in {"none", "signature", "marker", "short", "header"} :
          afile = DamagedArchive(WArchive(adescs), how)
    /\ astate = "start"
    /\ entries = EmptyMap
    /\ areader = NoReader
    /\ aout = <<>>
    /\ aopened = NotOpened

IdleArchive ==
    /\ afile = <<>>
    /\ adescs = <<>>
    /\ astate = "idle"
    /\ entries = EmptyMap
    /\ areader = NoReader
    /\ aout = <<>>
    /\ aopened = NotOpened

\* Archive::load_from_file(file)
load_from_file ==
    /\ astate = "start"
    /\ LET r == Archive_load_from_file(afile) IN
        /\ astate' = IF r.err = "" THEN "loaded" ELSE r.err
        /\ entries' = IF r.err = "" THEN r.v ELSE entries
        /\ areader' = [NoReader EXCEPT !.fpos = r.p]
    /\ UNCHANGED <<afile, adescs, aout, aopened>>
    /\ UNCHANGED notArchive

\* archive.open_entry(hash).  The reader of an earlier call borrows the
\* file and is gone by then; the file is where it was left.  An error is
\* kept in the place of the reader.
open_entry ==
    /\ astate = "loaded"
    /\ aopened.n < MaxOpens
    /\ \E hash \in {HashA, HashB} :
        LET r == Archive_open_entry(entries, hash, areader.fpos) IN
        /\ areader' = IF r.err = "" THEN r.v
                      ELSE [NoReader EXCEPT !.kind = r.err, !.fpos = r.p]
        /\ aopened' = [n |-> aopened.n + 1, hash |-> hash, fpos |-> areader.fpos]
    /\ aout' = <<>>
    /\ UNCHANGED <<afile, adescs, astate, entries>>
    /\ UNCHANGED notArchive

\* One call of UncompressedReader::read with a buffer of buf_len bytes.  A
\* call that returns 0 for a buffer that is not empty is the end of the
\* stream.
read ==
    /\ areader.kind = "UncompressedReader"
    /\ ~areader.eof
    /\ \E buf_len \in 0..MaxBuf :
        \E res \in File_read_counts(afile, areader.fpos,
                                    UncompressedReader_limit(areader, buf_len)) :
            /\ aout' = aout \o SubSeq(afile, areader.fpos + 1, areader.fpos + res)
            /\ areader' = [areader EXCEPT !.i = @ + res, !.fpos = @ + res,
                                          !.eof = (buf_len > 0 /\ res = 0)]
    /\ UNCHANGED <<afile, adescs, astate, entries, aopened>>
    /\ UNCHANGED notArchive

----------------------------------------------------------------------------
\* sii/value.rs: identifiers compared.  Two IDs are produced, each from wire
\* bytes or from a text, then rendered and compared.

\* str::cmp: byte by byte, the shorter text first when one is a prefix.
RECURSIVE str_cmp(_, _)
str_cmp(a, b) ==
    IF a = <<>> /\ b = <<>> THEN "Equal"
    ELSE IF a = <<>> THEN "Less"
    ELSE IF b = <<>> THEN "Greater"
    ELSE IF a[1] < b[1] THEN "Less"
    ELSE IF a[1] > b[1] THEN "Greater"
    ELSE str_cmp(Tail(a), Tail(b))

\* impl Ord for ID: the rendered texts are compared; a to_string that panics
\* takes the comparison with it.
ID_cmp(a, b) ==
    IF ID_to_string(a).err # "" \/ ID_to_string(b).err # "" THEN "Panic"
    ELSE str_cmp(ID_to_string(a).v, ID_to_string(b).v)

\* derive(PartialEq, Eq) on enum ID: the same variant with the same payload.
ID_eq(a, b) == a.kind = b.kind /\ a.parts = b.parts

\* derive(Hash) on enum ID: what is fed to the hasher, the discriminant and
\* then the payload (a Vec feeds its length first).
ID_hash(id) ==
    IF id.kind = "Nameless" THEN <<0, id.parts[1]>>
    ELSE <<1, Len(id.parts), id.parts>>

\* The encoded value of a text of the alphabet.
Encoded(str) == EncodedString_try_from(str).v

\* The byte pairs the Nameless sources are made of.
NamelessPairs == {<<0, 0>>, <<0, 18>>, <<1, 2>>, <<171, 205>>, <<255, 255>>}

NamelessWires ==
    {<<NamelessMarker>> \o g[1] \o g[2] \o g[3] \o g[4] :
        g \in [1..4 -> NamelessPairs]}

\* Wire bytes: no parts; one part 0; a; a.b; _nameless.102.304.506.708 as
\* five named parts; FF 01 .. 08; one part of 38 (a digit of 0); one part
\* of 38 * 38 + 1 (a digit of 0 after a digit of 1); one part of 2^64 - 1;
\* two parts announced and one present.
WireMenu ==
    { <<0>>,
      <<1>> \o Zero64,
      WID(Named(<<Encoded(<<97>>)>>)),
      WID(Named(<<Encoded(<<97>>), Encoded(<<98>>)>>)),
      WID(Named(<<Encoded(NamelessPrefix), Encoded(<<49, 48, 50>>),
                  Encoded(<<51, 48, 52>>), Encoded(<<53, 48, 54>>),
                  Encoded(<<55, 48, 56>>)>>)),
      <<NamelessMarker, 1, 2, 3, 4, 5, 6, 7, 8>>,
      <<1, 38, 0, 0, 0, 0, 0, 0, 0>>,
      <<1, 165, 5, 0, 0, 0, 0, 0, 0>>,
      <<1, 255, 255, 255, 255, 255, 255, 255, 255>>,
      <<2>> \o Encoded(<<97>>) }

\* Texts: "", a, a.b, .a.b, A, a-b, _nameless.1.
TextMenu ==
    { <<>>, <<97>>, <<97, 46, 98>>, <<46, 97, 46, 98>>, <<65>>,
      <<97, 45, 98>>, NamelessPrefix \o <<46, 49>> }

Wire(bytes) == [from |-> "wire", bytes |-> bytes]

Text(bytes) == [from |-> "text", bytes |-> bytes]

FirstSources ==
    {Wire(w) : w \in WireMenu \cup NamelessWires} \cup {Text(t) : t \in TextMenu}

SecondSources == {Wire(w) : w \in WireMenu} \cup {Text(t) : t \in TextMenu}

PendingID == [err |-> "pending", v |-> <<>>]

NotCompared == [done |-> FALSE, ta |-> PendingText, tb |-> PendingText,
                cmp |-> "", eq |-> FALSE, hash_eq |-> FALSE]

InitId ==
    /\ isrc \in {<<a, b>> : a \in FirstSources, b \in SecondSources}
    /\ ids = <<PendingID, PendingID>>
    /\ irel = NotCompared

IdleId ==
    /\ isrc = <<>>
    /\ ids = <<>>
    /\ irel = NotCompared

\* ID::read_from(&mut reader) on the wire bytes of one source
id_read_from ==
    \E i \in 1..2 :
        /\ i <= Len(isrc)
        /\ isrc[i].from = "wire"
        /\ ids[i].err = "pending"
        /\ ids' = [ids EXCEPT ![i] =
                     Match(ID_read_from(isrc[i].bytes, 0), LAMBDA r :
                           [err |-> r.err, v |-> r.v])]
        /\ UNCHANGED <<isrc, irel>>
        /\ UNCHANGED notId

\* ID::try_from(text) on the text of one source
id_try_from ==
    \E i \in 1..2 :
        /\ i <= Len(isrc)
        /\ isrc[i].from = "text"
        /\ ids[i].err = "pending"
        /\ ids' = [ids EXCEPT ![i] =
                     Match(ID_try_from(isrc[i].bytes), LAMBDA r :
                           [err |-> r.err, v |-> r.v])]
        /\ UNCHANGED <<isrc, irel>>
        /\ UNCHANGED notId

\* a.to_string(), b.to_string(), a.cmp(&b), a == b and the two hashes
id_cmp ==
    /\ Len(ids) = 2
    /\ ids[1].err = "" /\ ids[2].err = ""
    /\ ~irel.done
    /\ irel' = [done |-> TRUE,
                ta |-> ID_to_string(ids[1].v),
                tb |-> ID_to_string(ids[2].v),
                cmp |-> ID_cmp(ids[1].v, ids[2].v),
                eq |-> ID_eq(ids[1].v, ids[2].v),
                hash_eq |-> ID_hash(ids[1].v) = ID_hash(ids[2].v)]
    /\ UNCHANGED <<isrc, ids>>
    /\ UNCHANGED notId

----------------------------------------------------------------------------
\* sii/text.rs: the lexer.  A token is [t, v]; a position is the number of
\* bytes consumed; the error "EOF" is EOFError.

Token(t, v) == [t |-> t, v |-> v]

\* peek!(self.0)
peek_byte(s, p) == IF p < Len(s) THEN Ok(s[p + 1], p) ELSE Err("EOF", p)

\* next!(self.0)
next_byte(s, p) == IF p < Len(s) THEN Ok(s[p + 1], p + 1) ELSE Err("EOF", p)

\* expect_char!(next!(self.0), ch)
expect_char(s, p, ch) ==
    Try(next_byte(s, p), LAMBDA x :
    IF x.v = ch THEN Ok(<<>>, x.p) ELSE Err("ExpectedChar", x.p))

IsLetter(c) == c \in 97..122 \/ c \in 65..90 \/ c = 95

\* b'a'..=b'z' | b'A'..=b'Z' | b'0'..=b'9' | b'.' | b'_'
IsIdentChar(c) == IsLetter(c) \/ c \in 48..57 \/ c = Dot

\* take_string!: the bytes of the pattern up to the first other byte.  The
\* loop ends at a byte that is peeked, so the end of the stream ends it
\* with EOFError.
RECURSIVE take_string(_, _)
take_string(s, p) ==
    Try(peek_byte(s, p), LAMBDA c :
    IF IsIdentChar(c.v)
    THEN Try(take_string(s, p + 1), LAMBDA r : Ok(<<c.v>> \o r.v, r.p))
    ELSE Ok(<<>>, p))

\* The number a text of decimal digits stands for.
RECURSIVE DecValue(_)
DecValue(str) ==
    IF str = <<>> THEN 0
    ELSE 10 * DecValue(SubSeq(str, 1, Len(str) - 1)) + (str[Len(str)] - 48)

\* u64::from_str on a text of digits.  The texts of the model are shorter
\* than the 20 digits from which a u64 overflows.
u64_from_str(str) ==
    IF str = <<>> THEN [err |-> "ParseIntError", v |-> 0]
    ELSE [err |-> "", v |-> DecValue(str)]

\* A text without its zeros at the end.
RECURSIVE TrimZeros(_)
TrimZeros(str) ==
    IF str # <<>> /\ str[Len(str)] = 48
    THEN TrimZeros(SubSeq(str, 1, Len(str) - 1))
    ELSE str

\* f32::from_str on a text of digits and dots: one dot and at least one
\* digit.  The value is <<m, e>> for m / 10^e with e as small as it can be;
\* the texts of the model have fewer digits than an f32 tells apart.
f32_from_str(str) ==
    LET pieces == split(str) IN
    IF Len(pieces) # 2 \/ Len(str) < 2
    THEN [err |-> "ParseFloatError", v |-> <<0, 0>>]
    ELSE [err |-> "",
          v |-> <<DecValue(pieces[1] \o TrimZeros(pieces[2])),
                  Len(TrimZeros(pieces[2]))>>]

\* Lexer::read_identifier_or_number
read_identifier_or_number(s, p) ==
    Try(take_string(s, p), LAMBDA chars :
    IF \E i \in 1..Len(chars.v) : IsLetter(chars.v[i])
    THEN IF chars.v = <<116, 114, 117, 101>>
         THEN Ok(Token("Boolean", TRUE), chars.p)
         ELSE IF chars.v = <<102, 97, 108, 115, 101>>
         THEN Ok(Token("Boolean", FALSE), chars.p)
         ELSE Ok(Token("Identifier", chars.v), chars.p)
    ELSE IF \E i \in 1..Len(chars.v) : chars.v[i] = Dot
    THEN Match(f32_from_str(chars.v), LAMBDA f :
         IF f.err # "" THEN Err(f.err, chars.p)
         ELSE Ok(Token("Float", f.v), chars.p))
    ELSE Match(u64_from_str(chars.v), LAMBDA n :
         IF n.err # "" THEN Err(n.err, chars.p)
         ELSE Ok(Token("Integer", n.v), chars.p)))

\* Lexer::read_left_right_bracket
read_left_right_bracket(s, p) ==
    Try(expect_char(s, p, 91), LAMBDA l :
    Try(expect_char(s, l.p, 93), LAMBDA r :
    Ok(Token("LeftRightBracket", <<>>), r.p)))

\* The loop of read_quoted_string: the bytes up to the closing quote, which
\* is left in the stream, with \" \\ and \n unescaped.
RECURSIVE QuotedBytes(_, _)
QuotedBytes(s, p) ==
    Try(peek_byte(s, p), LAMBDA c :
    IF c.v = 92
    THEN Try(peek_byte(s, p + 1), LAMBDA d :
         IF d.v = 34 \/ d.v = 92
         THEN Try(QuotedBytes(s, p + 2), LAMBDA r : Ok(<<d.v>> \o r.v, r.p))
         ELSE IF d.v = 110
         THEN Try(QuotedBytes(s, p + 2), LAMBDA r : Ok(<<10>> \o r.v, r.p))
         ELSE Err("BadEscape", p + 1))
    ELSE IF c.v # 34
    THEN Try(QuotedBytes(s, p + 1), LAMBDA r : Ok(<<c.v>> \o r.v, r.p))
    ELSE Ok(<<>>, p))

\* String::from_utf8 on the bytes of a text stream: ASCII, and 0xEF with two
\* continuation bytes; 0xEF is the only lead byte the model's texts hold.
RECURSIVE text_from_utf8_ok(_)
text_from_utf8_ok(bs) ==
    IF bs = <<>> THEN TRUE
    ELSE IF bs[1] < 128 THEN text_from_utf8_ok(Tail(bs))
    ELSE /\ bs[1] = 239
         /\ Len(bs) >= 3
         /\ bs[2] \in 128..191
         /\ bs[3] \in 128..191
         /\ text_from_utf8_ok(SubSeq(bs, 4, Len(bs)))

\* Lexer::read_quoted_string
read_quoted_string(s, p) ==
    Try(expect_char(s, p, 34), LAMBDA open :
    Try(QuotedBytes(s, open.p), LAMBDA body :
    IF ~text_from_utf8_ok(body.v) THEN Err("FromUtf8Error", body.p)
    ELSE Try(expect_char(s, body.p, 34), LAMBDA close :
         Ok(Token("QuotedString", body.v), close.p))))

\* Lexer::skip_comment: up to and with the end of the line.
RECURSIVE skip_comment(_, _)
skip_comment(s, p) ==
    Try(peek_byte(s, p), LAMBDA c :
    IF c.v = 10 THEN Ok(<<>>, p + 1) ELSE skip_comment(s, p + 1))

\* Lexer::skip_whitespace
RECURSIVE skip_whitespace(_, _)
skip_whitespace(s, p) ==
    Try(peek_byte(s, p), LAMBDA c :
    IF c.v = 35
    THEN Try(skip_comment(s, p), LAMBDA k : skip_whitespace(s, k.p))
    ELSE IF c.v \in {32, 9, 13, 10} THEN skip_whitespace(s, p + 1)
    ELSE Ok(<<>>, p))

\* Lexer::skip_utf8_bom
skip_utf8_bom(s, p) ==
    Try(expect_char(s, p, 239), LAMBDA a :
    Try(expect_char(s, a.p, 187), LAMBDA b :
    expect_char(s, b.p, 191)))

\* Lexer::next_inner
RECURSIVE Lexer_next_inner(_, _)
Lexer_next_inner(s, p) ==
    Try(skip_whitespace(s, p), LAMBDA w :
    Try(peek_byte(s, w.p), LAMBDA c :
    IF IsIdentChar(c.v) THEN read_identifier_or_number(s, w.p)
    ELSE IF c.v = 123 THEN Ok(Token("LeftBrace", <<>>), w.p + 1)
    ELSE IF c.v = 125 THEN Ok(Token("RightBrace", <<>>), w.p + 1)
    ELSE IF c.v = 58 THEN Ok(Token("Colon", <<>>), w.p + 1)
    ELSE IF c.v = 91 THEN read_left_right_bracket(s, w.p)
    ELSE IF c.v = 34 THEN read_quoted_string(s, w.p)
    ELSE IF c.v = 239
    THEN Try(skip_utf8_bom(s, w.p), LAMBDA b : Lexer_next_inner(s, b.p))
    ELSE Err("UnexpectedByte", w.p)))

\* impl Iterator for Lexer: EOFError is the end of the tokens.
Lexer_next(s, p) ==
    Match(Lexer_next_inner(s, p), LAMBDA r :
    IF r.err = "" THEN [opt |-> "Some", err |-> "", v |-> r.v, p |-> r.p]
    ELSE IF r.err = "EOF"
    THEN [opt |-> "None", err |-> "", v |-> <<>>, p |-> r.p]
    ELSE [opt |-> "Some", err |-> r.err, v |-> <<>>, p |-> r.p])

\* The lexer as a state machine: next() is called on a stream of bytes.

\* What the streams are made of: n true false 1 0 . _ space newline # { }
\* : [ ] " \ the byte order mark, 0xEF alone, and - which no token has.
LexPieces ==
    { <<110>>, <<116, 114, 117, 101>>, <<102, 97, 108, 115, 101>>,
      <<49>>, <<48>>, <<46>>, <<95>>, <<32>>, <<10>>, <<35>>, <<123>>, <<125>>,
      <<58>>, <<91>>, <<93>>, <<34>>, <<92>>, <<239, 187, 191>>, <<239>>,
      <<45>> }

RECURSIVE Flatten(_)
Flatten(seqs) == IF seqs = <<>> THEN <<>> ELSE seqs[1] \o Flatten(Tail(seqs))

LexInputs ==
    {Flatten(ps) : ps \in UNION {[1..n -> LexPieces] : n \in 0..MaxPieces}}

InitLexer ==
    /\ lsrc \in LexInputs
    /\ lpos = 0
    /\ lhist = <<>>

IdleLexer ==
    /\ lsrc = <<>>
    /\ lpos = 0
    /\ lhist = <<>>

\* Lexer::next()
lexer_next ==
    /\ Len(lhist) < MaxLexCalls
    /\ LET r == Lexer_next(lsrc, lpos) IN
       /\ lpos' = r.p
       /\ lhist' = Append(lhist, [at |-> lpos, to |-> r.p, opt |-> r.opt,
                                  err |-> r.err, v |-> r.v])
    /\ lsrc' = lsrc
    /\ UNCHANGED notLexer

----------------------------------------------------------------------------
\* sii/text.rs: the parser over the tokens.  The Peekable<Lexer> is the
\* number of bytes the lexer consumed and the item a peek has stored.

NotPeeked == [opt |-> "Empty", err |-> "", v |-> <<>>]

Peekable(consumed, peeked) == [pos |-> consumed, peeked |-> peeked]

Item(r) == [opt |-> r.opt, err |-> r.err, v |-> r.v]

\* Peekable::next: the item a peek stored, else the next of the lexer.
lexer_next_item(s, st) ==
    IF st.peeked.opt # "Empty"
    THEN [item |-> st.peeked, st |-> Peekable(st.pos, NotPeeked)]
    ELSE Match(Lexer_next(s, st.pos), LAMBDA r :
         [item |-> Item(r), st |-> Peekable(r.p, NotPeeked)])

\* Mutant: a peek takes the item out of the lexer.
lexer_peek_item_taking(s, st) == lexer_next_item(s, st)

\* Peekable::peek: the next item of the lexer, stored for the next call.
lexer_peek_item(s, st) ==
    IF st.peeked.opt # "Empty"
    THEN [item |-> st.peeked, st |-> st]
    ELSE Match(Lexer_next(s, st.pos), LAMBDA r :
         [item |-> Item(r), st |-> Peekable(r.p, Item(r))])

\* The arms of next! and peek!: the token, "read error", or EOFError.
unwrap_item(x) ==
    IF x.item.opt = "None" THEN Err("EOF", x.st)
    ELSE IF x.item.err # "" THEN Err("ReadError", x.st)
    ELSE Ok(x.item.v, x.st)

\* next!(self.lexer)
next_token(s, st) == unwrap_item(lexer_next_item(s, st))

\* peek!(self.lexer)
peek_token(s, st) == unwrap_item(lexer_peek_item(s, st))

\* "SiiNunit"
SiiNunit == <<83, 105, 105, 78, 117, 110, 105, 116>>

\* Parser::new
TextParser_new(s) ==
    Try(next_token(s, Peekable(0, NotPeeked)), LAMBDA unit :
    IF ~(unit.v.t = "Identifier" /\ unit.v.v = SiiNunit)
    THEN Err("ExpectedToken", unit.p)
    ELSE Try(next_token(s, unit.p), LAMBDA brace :
         IF brace.v.t # "LeftBrace" THEN Err("ExpectedToken", brace.p)
         ELSE Ok(<<>>, brace.p)))

\* The match on the token of a field's value in read_struct.
IsValueToken(tok) ==
    tok.t \in {"Identifier", "QuotedString", "Integer", "Float", "Boolean"}

field_value(tok) ==
    IF tok.t = "Identifier" \/ tok.t = "QuotedString" THEN Val("String", tok.v)
    ELSE IF tok.t = "Integer" THEN Val("UInt64", tok.v)
    ELSE IF tok.t = "Float" THEN Val("Single", tok.v)
    ELSE Val("ByteBool", tok.v)

\* arrays.get_mut(&field_name), inserted empty if it didn't exist, .push
arrays_push(arrays, name, value) ==
    Insert(arrays, name,
           Append(IF name \in DOMAIN arrays THEN arrays[name] ELSE <<>>, value))

\* The loop of read_struct: fields up to and with the closing brace.
RECURSIVE read_text_fields(_, _, _, _)
RECURSIVE read_text_field(_, _, _, _, _, _)
read_text_field(s, st, field_name, is_array, fields, arrays) ==
    Try(next_token(s, st), LAMBDA colon :
    IF colon.v.t # "Colon" THEN Err("ExpectedToken", colon.p)
    ELSE Try(next_token(s, colon.p), LAMBDA value :
         IF ~IsValueToken(value.v) THEN Err("UnexpectedToken", value.p)
         ELSE IF is_array
         THEN read_text_fields(s, value.p, fields,
                               arrays_push(arrays, field_name, field_value(value.v)))
         ELSE read_text_fields(s, value.p,
                               Insert(fields, field_name, field_value(value.v)),
                               arrays)))

read_text_fields(s, st, fields, arrays) ==
    Try(peek_token(s, st), LAMBDA t :
    IF t.v.t = "RightBrace"
    THEN Try(next_token(s, t.p), LAMBDA close :
         Ok([fields |-> fields, arrays |-> arrays], close.p))
    ELSE Try(next_token(s, t.p), LAMBDA field_name :
         IF field_name.v.t # "Identifier"
         THEN Err("UnexpectedToken", field_name.p)
         ELSE Try(peek_token(s, field_name.p), LAMBDA bracket :
              IF bracket.v.t = "LeftRightBracket"
              THEN Try(next_token(s, bracket.p), LAMBDA taken :
                   read_text_field(s, taken.p, field_name.v.v, TRUE,
                                   fields, arrays))
              ELSE read_text_field(s, bracket.p, field_name.v.v, FALSE,
                                   fields, arrays))))

\* Mutant: the elements of another variant than the first are left out.
RECURSIVE OfVariant(_, _)
OfVariant(values, t) ==
    IF values = <<>> THEN <<>>
    ELSE IF values[1].variant = t
    THEN <<values[1].v>> \o OfVariant(Tail(values), t)
    ELSE OfVariant(Tail(values), t)

homogeneous_array_partial(values, t, arrt) ==
    [err |-> "", v |-> Val(arrt, OfVariant(values, t))]

\* homogeneous_array!
homogeneous_array(values, t, arrt) ==
    IF \A i \in 1..Len(values) : values[i].variant = t
    THEN [err |-> "", v |-> Val(arrt, [i \in 1..Len(values) |-> values[i].v])]
    ELSE [err |-> "MixedArray", v |-> <<>>]

\* impl TryFrom<Vec<Value>> for Value
Value_try_from(values) ==
    IF values = <<>> THEN [err |-> "EmptyArray", v |-> <<>>]
    ELSE IF values[1].variant = "String"
    THEN homogeneous_array(values, "String", "StringArray")
    ELSE IF values[1].variant = "EncodedString"
    THEN homogeneous_array(values, "EncodedString", "EncodedStringArray")
    ELSE IF values[1].variant = "ID"
    THEN homogeneous_array(values, "ID", "IDArray")
    ELSE IF values[1].variant = "UInt64"
    THEN homogeneous_array(values, "UInt64", "UInt64Array")
    ELSE [err |-> "TODO", v |-> <<>>]

\* The loop over the arrays at the end of read_struct.  A HashMap is
\* iterated in no order that can be told; order is the one it took.
RECURSIVE arrays_into_fields(_, _, _, _)
arrays_into_fields(fields, arrays, order, st) ==
    IF order = <<>> THEN Ok(fields, st)
    ELSE IF order[1] \notin DOMAIN arrays
    THEN arrays_into_fields(fields, arrays, Tail(order), st)
    ELSE Match(Value_try_from(arrays[order[1]]), LAMBDA array_value :
         IF array_value.err # "" THEN Err(array_value.err, st)
         ELSE arrays_into_fields(Insert(fields, order[1], array_value.v),
                                 arrays, Tail(order), st))

\* Parser::read_struct
read_struct(s, st, order) ==
    Try(next_token(s, st), LAMBDA struct_name :
    IF struct_name.v.t # "Identifier" THEN Err("UnexpectedToken", struct_name.p)
    ELSE Try(next_token(s, struct_name.p), LAMBDA colon :
    IF colon.v.t # "Colon" THEN Err("ExpectedToken", colon.p)
    ELSE Try(next_token(s, colon.p), LAMBDA identifier :
    IF identifier.v.t # "Identifier" THEN Err("UnexpectedToken", identifier.p)
    ELSE Match(ID_try_from(identifier.v.v), LAMBDA struct_id :
    IF struct_id.err # "" THEN Err(struct_id.err, identifier.p)
    ELSE Try(next_token(s, identifier.p), LAMBDA brace :
    IF brace.v.t # "LeftBrace" THEN Err("ExpectedToken", brace.p)
    ELSE Try(read_text_fields(s, brace.p, EmptyMap, EmptyMap), LAMBDA body :
    Try(arrays_into_fields(body.v.fields, body.v.arrays, order, body.p),
        LAMBDA fields :
    Ok(Struct(struct_id.v, struct_name.v.v, fields.v), fields.p))))))))

\* Parser::next_inner
TextParser_next_inner(s, st, order) ==
    Match(lexer_peek_item(s, st), LAMBDA x :
    IF x.item.opt = "None" THEN Err("UnexpectedEnd", x.st)
    ELSE IF x.item.err # "" THEN Err("TokenizerError", x.st)
    ELSE IF x.item.v.t = "RightBrace" THEN Err("EOF", x.st)
    ELSE IF x.item.v.t = "Identifier" THEN read_struct(s, x.st, order)
    ELSE Err("UnexpectedToken", x.st))

\* impl Iterator for Parser: EOFError is the end of the records.
TextParser_next(s, st, order) ==
    Match(TextParser_next_inner(s, st, order), LAMBDA r :
    IF r.err = "" THEN [opt |-> "Some", err |-> "", v |-> r.v, p |-> r.p]
    ELSE IF r.err = "EOF"
    THEN [opt |-> "None", err |-> "", v |-> <<>>, p |-> r.p]
    ELSE [opt |-> "Some", err |-> r.err, v |-> <<>>, p |-> r.p])

\* The text parser as a state machine: a text is written from a list of
\* structs, a Parser is made over it and next() is called.

\* A field as written, and the value it stands for.
TextField(name, is_array, text, value) ==
    [name |-> name, is_array |-> is_array, text |-> text, value |-> value]

\* The fields a struct is written from, by number:
\* b: "hi"   i[]: 1   i[]: 2   i[]: "x"   i[]: n   i[]: 1.5   j[]: true
TextFieldMenu ==
    << TextField(<<98>>, FALSE, <<34, 104, 105, 34>>,
                Val("String", <<104, 105>>)),
      TextField(<<105>>, TRUE, <<49>>,
                Val("UInt64", 1)),
      TextField(<<105>>, TRUE, <<50>>,
                Val("UInt64", 2)),
      TextField(<<105>>, TRUE, <<34, 120, 34>>,
                Val("String", <<120>>)),
      TextField(<<105>>, TRUE, <<110>>,
                Val("String", <<110>>)),
      TextField(<<105>>, TRUE, <<49, 46, 53>>,
                Val("Single", <<15, 1>>)),
      TextField(<<106>>, TRUE, <<116, 114, 117, 101>>,
                Val("ByteBool", TRUE)) >>

TextFieldLists ==
    UNION {[1..n -> 1..Len(TextFieldMenu)] : n \in 0..MaxFields}

\* A struct as written: its name, the text of its id and its fields, each
\* the number of a field of the menu.
TextStruct(struct_name, id, fields) ==
    [struct_name |-> struct_name, id |-> id, fields |-> fields]

FieldsOf(d) == [i \in 1..Len(d.fields) |-> TextFieldMenu[d.fields[i]]]

\* The first struct of a text: foo : a.b with any fields, or one of the ids
\* .a.b, a, _nameless.1 with the field b.
FirstStructs ==
    {TextStruct(<<102, 111, 111>>, <<97, 46, 98>>, fs) : fs \in TextFieldLists}
      \cup {TextStruct(<<102, 111, 111>>, id, <<1>>) :
               id \in {<<46, 97, 46, 98>>, <<97>>, NamelessPrefix \o <<46, 49>>}}

\* The structs after it: bar : c without fields, or with i[]: 2.
LaterStructs ==
    { TextStruct(<<98, 97, 114>>, <<99>>, <<>>),
      TextStruct(<<98, 97, 114>>, <<99>>, <<3>>) }

\* After the structs: the closing brace of the wrapper; nothing, the text
\* ending there; the closing brace and one more struct behind it; or the
\* text ending inside the last struct, before its closing brace.
TailMenu == {"closed", "open", "more", "cut"}

TextDoc(structs, tail) == [structs |-> structs, tail |-> tail]

\* The texts: none or one struct with any tail when the struct has one
\* field at most, structs after it likewise, and one struct of any fields
\* in a closed wrapper.
TextDocs ==
    {TextDoc(<<>>, tail) : tail \in TailMenu \ {"cut"}}
      \cup {TextDoc(<<first>>, "closed") : first \in FirstStructs}
      \cup UNION { {TextDoc(<<first>> \o rest, tail) :
                      first \in {f \in FirstStructs : Len(f.fields) <= 1},
                      rest \in [1..n -> LaterStructs],
                      tail \in TailMenu} :
                   n \in 0..(MaxStructs - 1) }

WTextField(f) ==
    f.name \o (IF f.is_array THEN <<91, 93>> ELSE <<>>) \o <<58, 32>> \o f.text
      \o <<10>>

WTextStruct(d) ==
    d.struct_name \o <<32, 58, 32>> \o d.id \o <<32, 123, 10>>
      \o Flatten([i \in 1..Len(d.fields) |-> WTextField(FieldsOf(d)[i])])
      \o <<125, 10>>

WTextStructs(doc) ==
    Flatten([i \in 1..Len(doc.structs) |-> WTextStruct(doc.structs[i])])

WText(doc) ==
    SiiNunit \o <<10, 123, 10>>
      \o (IF doc.tail = "cut"
          THEN SubSeq(WTextStructs(doc), 1, Len(WTextStructs(doc)) - 2)
          ELSE WTextStructs(doc))
      \o (IF doc.tail \in {"open", "cut"} THEN <<>>
          ELSE IF doc.tail = "closed" THEN <<125, 10>>
          ELSE <<125, 10>> \o WTextStruct(TextStruct(<<98, 97, 114>>, <<99>>, <<>>)))

\* The orders the arrays of a struct may be visited in.
ArrayOrders == {<<<<105>>, <<106>>>>, <<<<106>>, <<105>>>>}

InitText ==
    /\ tdoc \in TextDocs
    /\ tsrc = WText(tdoc)
    /\ tstate = "start"
    /\ tlex = Peekable(0, NotPeeked)
    /\ thist = <<>>

IdleText ==
    /\ tdoc = TextDoc(<<>>, "idle")
    /\ tsrc = <<>>
    /\ tstate = "idle"
    /\ tlex = Peekable(0, NotPeeked)
    /\ thist = <<>>

\* Parser::new_from_reader(reader)
text_new ==
    /\ tstate = "start"
    /\ LET r == TextParser_new(tsrc) IN
       /\ tstate' = IF r.err = "" THEN "parsing" ELSE r.err
       /\ tlex' = r.p
    /\ UNCHANGED <<tsrc, tdoc, thist>>
    /\ UNCHANGED notText

\* Parser::next()
text_next ==
    /\ tstate = "parsing"
    /\ Len(thist) < MaxTextCalls
    /\ \E order \in ArrayOrders :
         LET r == TextParser_next(tsrc, tlex, order) IN
         /\ tlex' = r.p
         /\ thist' = Append(thist, [opt |-> r.opt, err |-> r.err, v |-> r.v])
    /\ UNCHANGED <<tsrc, tdoc, tstate>>
    /\ UNCHANGED notText

----------------------------------------------------------------------------
\* sii/game.rs: GameSave::new over a binary stream, one step per round of its
\* loop.  The parser is the binary parser above, on the same reader.

\* Mutant: an ID that is already in the index keeps its first Struct.
objects_insert_keep_first(index, db) ==
    IF db.id \in DOMAIN index THEN index ELSE Insert(index, db.id, db)

\* objects.insert(db.id.clone(), db)
objects_insert(index, db) == Insert(index, db.id, db)

\* The blocks the saves are written from: two schemas for id 1, three data
\* blocks of it, two of them with one ID, and a data block without a schema.
SaveMenu ==
    { WS(1, <<97>>, <<WFieldDef(39, <<120>>, <<>>)>>),
      WS(1, <<98>>, <<WFieldDef(1, <<115>>, <<>>), WFieldDef(53, <<121>>, <<>>)>>),
      WD(1, Named(<< <<12, 0, 0, 0, 0, 0, 0, 0>> >>), 1),
      WD(1, Named(<< <<12, 0, 0, 0, 0, 0, 0, 0>> >>), 2),
      WD(1, Nameless(<<1, 2, 3, 4, 5, 6, 7, 8>>), 2),
      WD(2, Named(<<>>), 2) }

SaveLists == UNION {[1..n -> SaveMenu] : n \in 0..MaxBlocks}

InitSave ==
    /\ \E bl \in SaveLists, c \in 0..MaxCut :
        /\ blocks = bl
        /\ cut = c
        /\ stream = SubSeq(WStream(bl), 1, Len(WStream(bl)) - c)
    /\ pos = 0
    /\ pstate = "start"
    /\ struct_defs = EmptyMap
    /\ history = <<>>
    /\ emitted = <<>>
    /\ sstate = "new"
    /\ objects = EmptyMap

IdleSave ==
    /\ sstate = "idle"
    /\ objects = EmptyMap

notBinSave ==
    <<codecVars, valueVars, cryptVars, archiveVars, idVars, lexerVars, textVars>>

\* GameSave::new, up to the loop: Parser::new(reader)?
save_new ==
    /\ sstate = "new"
    /\ LET r == Parser_new(stream) IN
        /\ pstate' = IF r.err = "" THEN "ready" ELSE r.err
        /\ pos' = r.p
        /\ sstate' = IF r.err = "" THEN "loop" ELSE "Err"
    /\ UNCHANGED <<stream, struct_defs, history, emitted, blocks, cut, objects>>
    /\ UNCHANGED notBinSave

\* One round of the loop: parser.next_block()? and the match on its result.
\* An error leaves new() with no GameSave, the end marker with the index.
save_next_block ==
    /\ sstate = "loop"
    /\ LET o == Parser_next_block(stream, pos, struct_defs) IN
        /\ struct_defs' = o.defs
        /\ pos' \in (IF o.err = "Io" THEN {o.p, Len(stream)} ELSE {o.p})
        /\ history' = Append(history,
                             [kind |-> o.kind, err |-> o.err, at |-> pos,
                              block_type |-> o.block_type, ret |-> o.v])
        /\ emitted' = IF o.kind = "Struct" THEN Append(emitted, o.v) ELSE emitted
        /\ sstate' = CASE o.kind = "Err" -> "Err"
                       [] o.kind = "None" -> "Ok"
                       [] OTHER -> "loop"
        /\ objects' = CASE o.kind = "Err" -> EmptyMap
                        [] o.kind = "Struct" -> objects_insert(objects, o.v)
                        [] OTHER -> objects
    /\ UNCHANGED <<stream, pstate, blocks, cut>>
    /\ UNCHANGED notBinSave

\* GameSave::get_block_by_id
get_block_by_id(index, id) == IF id \in DOMAIN index THEN Some(index[id]) ELSE None

----------------------------------------------------------------------------
\* The specifications.

\* The binary parser over written and damaged streams.
Init == InitBin /\ IdleCodec /\ IdleValue /\ IdleCrypt /\ IdleArchive /\ IdleId /\ IdleLexer /\ IdleText /\ IdleSave

Next ==
    \/ new
    \/ next_block

Spec == Init /\ [][Next]_vars

\* The identifier codec over texts.
InitCodecSpec == IdleBin /\ InitCodec /\ IdleValue /\ IdleCrypt /\ IdleArchive /\ IdleId /\ IdleLexer /\ IdleText /\ IdleSave

NextCodec ==
    \/ string_to_encoded
    \/ encoded_to_string
    \/ id_from_string
    \/ id_to_string

SpecCodec == InitCodecSpec /\ [][NextCodec]_vars

\* Value::read_from over field definitions, value types and bytes.
InitValueSpec == IdleBin /\ IdleCodec /\ InitValue /\ IdleCrypt /\ IdleArchive /\ IdleId /\ IdleLexer /\ IdleText /\ IdleSave

NextValue ==
    \/ field_def
    \/ read_value

SpecValue == InitValueSpec /\ [][NextValue]_vars

\* The decryptors over envelopes.
InitCryptSpec == IdleBin /\ IdleCodec /\ IdleValue /\ InitCrypt /\ IdleArchive /\ IdleId /\ IdleLexer /\ IdleText /\ IdleSave

NextCrypt ==
    \/ decrypt
    \/ decrypt_sii

SpecCrypt == InitCryptSpec /\ [][NextCrypt]_vars

\* The archive reader over archives, whole or damaged.
InitArchiveSpec == IdleBin /\ IdleCodec /\ IdleValue /\ IdleCrypt /\ InitArchive /\ IdleId /\ IdleLexer /\ IdleText /\ IdleSave

NextArchive ==
    \/ load_from_file
    \/ open_entry
    \/ read

SpecArchive == InitArchiveSpec /\ [][NextArchive]_vars

\* Identifiers: two IDs produced, rendered and compared.
InitIdSpec == IdleBin /\ IdleCodec /\ IdleValue /\ IdleCrypt /\ IdleArchive /\ InitId /\ IdleLexer /\ IdleText /\ IdleSave

NextId == id_read_from \/ id_try_from \/ id_cmp

SpecId == InitIdSpec /\ [][NextId]_vars

\* The text lexer: next() called on a stream of bytes.
InitLexerSpec ==
    IdleBin /\ IdleCodec /\ IdleValue /\ IdleCrypt /\ IdleArchive /\ IdleId
      /\ InitLexer /\ IdleText /\ IdleSave

NextLexer == lexer_next

SpecLexer == InitLexerSpec /\ [][NextLexer]_vars

\* The text parser: a Parser made over a written text, then next() called.
InitTextSpec ==
    IdleBin /\ IdleCodec /\ IdleValue /\ IdleCrypt /\ IdleArchive /\ IdleId
      /\ IdleLexer /\ InitText /\ IdleSave

NextText == text_new \/ text_next

SpecText == InitTextSpec /\ [][NextText]_vars

\* GameSave::new over binary streams.
InitSaveSpec == IdleCodec /\ IdleValue /\ IdleCrypt /\ IdleArchive /\ IdleId /\ IdleLexer /\ IdleText /\ InitSave

NextSave ==
    \/ save_new
    \/ save_next_block

SpecSave == InitSaveSpec /\ [][NextSave]_vars

----------------------------------------------------------------------------
\* Reading the history of a run against the blocks the stream was written from.

\* The first n calls each returned a record (a Schema or a Struct).
Clean(n) == \A i \in 1..n : history[i].kind \in {"Schema", "Struct"}

\* The offset in the written stream at which block i ends.
RECURSIVE BlockEnd(_, _)
BlockEnd(bl, i) == IF i = 0 THEN 8 ELSE BlockEnd(bl, i - 1) + Len(WBlock(bl, i))

\* The Structs of the data blocks among the first n blocks, in order.
RECURSIVE ExpectedUpTo(_, _)
ExpectedUpTo(bl, n) ==
    IF n = 0 THEN <<>>
    ELSE IF bl[n].b = "data"
         THEN Append(ExpectedUpTo(bl, n - 1), ExpectedStruct(bl, n))
         ELSE ExpectedUpTo(bl, n - 1)

\* Block i is whole in the stream and is one the parser is able to decode.
WellFormedBlock(i) ==
    /\ BlockEnd(blocks, i) <= Len(stream)
    /\ blocks[i].b = "data" => Decodable(blocks, i)

\* The latest call before call i that returned a schema with id k (0: none).
SchemaCallBefore(i, k) ==
    LET js == {j \in 1..(i - 1) :
                 history[j].kind = "Schema" /\ history[j].ret.id = k} IN
    IF js = {} THEN 0 ELSE CHOOSE j \in js : \A x \in js : x <= j

\* The number of calls among the first n that returned a Struct.
StructCalls(n) == Cardinality({i \in 1..n : history[i].kind = "Struct"})

\* C1: the Structs returned by successive next_block calls are, in order and
\* in number, the data blocks of the stream up to the end marker: as long as
\* every call has returned a record, the Structs returned are those of the data
\* blocks read so far; a whole, decodable block is returned as a record and
\* not skipped; and the end marker is reported after the last block, when all
\* data blocks have been returned.
C1_OrderFaithful ==
    LET n == Len(history) IN
    /\ Clean(n) =>
         /\ n <= Len(blocks)
         /\ emitted = ExpectedUpTo(blocks, n)
    /\ (n >= 1 /\ Clean(n - 1) /\ n <= Len(blocks) /\ WellFormedBlock(n)) =>
         history[n].kind = (IF blocks[n].b = "schema" THEN "Schema" ELSE "Struct")
    /\ (n >= 1 /\ Clean(n - 1) /\ n = Len(blocks) + 1 /\ cut = 0) =>
         history[n].kind = "None"
    /\ (n >= 1 /\ Clean(n - 1) /\ history[n].kind = "None") =>
         /\ n = Len(blocks) + 1
         /\ emitted = ExpectedUpTo(blocks, Len(blocks))

\* A stream of a schema and two data blocks has been read to its end marker.
C1_Witness ==
    LET n == Len(history) IN
    /\ n = 4
    /\ Clean(3)
    /\ history[n].kind = "None"
    /\ Len(emitted) = 2
    /\ emitted[1] # emitted[2]

\* C2: a Struct returned for block_type k has the struct name and the field
\* names of the schema with id k that was returned most recently before it.
C2_LastSchemaWins ==
    \A i \in 1..Len(history) :
        history[i].kind = "Struct" =>
            LET j == SchemaCallBefore(i, history[i].block_type) IN
            /\ j # 0
            /\ history[i].ret.struct_name = history[j].ret.name
            /\ DOMAIN history[i].ret.fields
                 = {history[j].ret.fields[x].name :
                      x \in 1..Len(history[j].ret.fields)}
            /\ emitted[StructCalls(i)] = history[i].ret

\* A Struct was returned under the second of two different schemas for its id.
C2_Witness ==
    \E i \in 1..Len(history) :
        /\ history[i].kind = "Struct"
        /\ \E j1, j2 \in 1..(i - 1) :
             /\ j1 < j2
             /\ history[j1].kind = "Schema" /\ history[j2].kind = "Schema"
             /\ history[j1].ret.id = history[i].block_type
             /\ history[j2].ret.id = history[i].block_type
             /\ history[j1].ret.name # history[j2].ret.name
             /\ history[i].ret.struct_name = history[j2].ret.name

\* C3: a call that reads a block_type k other than 0 for which no schema with
\* id k was returned earlier fails with UnknownSchema, and no Struct is
\* returned by it: the Structs returned are exactly those of the calls that
\* found their schema.
C3_UnknownSchema ==
    /\ \A i \in 1..Len(history) :
         (history[i].block_type \notin {0, -1}
            /\ SchemaCallBefore(i, history[i].block_type) = 0) =>
              /\ history[i].kind = "Err"
              /\ history[i].err = "UnknownSchema"
    /\ Len(emitted) = StructCalls(Len(history))

\* The first block of the written stream is a data block, and the call on it
\* has failed for want of a schema.
C3_Witness ==
    /\ Len(history) >= 1
    /\ Len(blocks) >= 1
    /\ blocks[1].b = "data"
    /\ history[1].block_type = blocks[1].k
    /\ history[1].err = "UnknownSchema"
    /\ emitted = <<>>

\* C7: a call returns "no more records" exactly when the five bytes at the
\* reader are a block_type of 0 and a zero byte; a call that finds the stream
\* exhausted, before a block_type or inside a record or the end marker,
\* returns an error.
C7_EndOfStream ==
    LET n == Len(history) IN
    /\ \A i \in 1..n :
         history[i].kind = "None" <=>
            /\ history[i].at + 5 <= Len(stream)
            /\ SubSeq(stream, history[i].at + 1, history[i].at + 5) = <<0, 0, 0, 0, 0>>
    /\ (n >= 1 /\ Clean(n - 1) /\ n <= Len(blocks)
          /\ BlockEnd(blocks, n) > Len(stream)) => history[n].kind = "Err"
    /\ (n >= 1 /\ Clean(n - 1) /\ n = Len(blocks) + 1 /\ cut > 0) =>
         /\ history[n].kind = "Err"
         /\ history[n].err = "Io"
    /\ \A i \in 1..n : history[i].at = Len(stream) => history[i].err = "Io"

\* The end marker was reported, and the next call, with nothing left to read,
\* failed.
C7_Witness ==
    \E i \in 1..(Len(history) - 1) :
        /\ history[i].kind = "None"
        /\ history[i + 1].at = Len(stream)
        /\ history[i + 1].err = "Io"

\* The end marker of the written stream was cut short, and the call reading
\* it failed.
C7_WitnessCut ==
    LET n == Len(history) IN
    /\ n = Len(blocks) + 1
    /\ n >= 2
    /\ Clean(n - 1)
    /\ cut \in 1..4
    /\ history[n].err = "Io"

\* C23: the schema registry is changed only by a call that returns a
\* schema record, which registers that record under its id; a call that
\* decodes a data record, fails or reports the end marker leaves the
\* registry as it was, and no registered id is ever removed.
C23_RegistryFrame ==
    [][ /\ DOMAIN struct_defs \subseteq DOMAIN struct_defs'
        /\ Len(history') = Len(history) => struct_defs' = struct_defs
        /\ Len(history') > Len(history) =>
             IF history'[Len(history')].kind = "Schema"
             THEN struct_defs' = Insert(struct_defs,
                                        history'[Len(history')].ret.id,
                                        history'[Len(history')].ret)
             ELSE struct_defs' = struct_defs ]_vars

\* The registry as the calls made so far leave it: for every id the last
\* schema record returned for it.
RegistryOf(n) ==
    LET seen == {history[i].ret.id : i \in {j \in 1..n : history[j].kind = "Schema"}} IN
    [k \in seen |-> history[SchemaCallBefore(n + 1, k)].ret]

\* A schema was registered, a data record was decoded under it, a schema
\* record for another id was cut short and failed midway, and the registry
\* holds the first schema alone.
C23_Witness ==
    /\ Len(history) = 3
    /\ history[1].kind = "Schema"
    /\ history[2].kind = "Struct"
    /\ history[3].kind = "Err"
    /\ history[3].block_type = 0
    /\ Len(blocks) = 3
    /\ blocks[3].b = "schema"
    /\ blocks[3].id # history[1].ret.id
    /\ history[3].at + 9 < Len(stream)
    /\ struct_defs = RegistryOf(3)
    /\ DOMAIN struct_defs = {history[1].ret.id}

\* A data record failed to decode after two schemas were registered, and
\* both are still registered.
C23_WitnessDataError ==
    /\ Len(history) = 3
    /\ history[1].kind = "Schema"
    /\ history[2].kind = "Schema"
    /\ history[3].kind = "Err"
    /\ history[3].block_type > 0
    /\ Cardinality(DOMAIN struct_defs) = 2
    /\ struct_defs = RegistryOf(3)

\* The schema record returned before call i for the block_type of call i.
SchemaOf(i) == history[SchemaCallBefore(i, history[i].block_type)].ret

FieldNames(schema) == {schema.fields[x].name : x \in 1..Len(schema.fields)}

\* C25 as claimed: a Struct returned has as many field-map entries as its
\* schema has field definitions.
C25_OneEntryPerDefinition ==
    \A i \in 1..Len(history) :
        history[i].kind = "Struct" =>
            Cardinality(DOMAIN history[i].ret.fields) = Len(SchemaOf(i).fields)

\* What parse_struct builds: one entry per field name of the schema; a name
\* that two definitions share has one entry, and as long as every call has
\* returned a record it holds the value decoded for the last of them.
C25_OneEntryPerName ==
    \A i \in 1..Len(history) :
        history[i].kind = "Struct" =>
            /\ DOMAIN history[i].ret.fields = FieldNames(SchemaOf(i))
            /\ Cardinality(DOMAIN history[i].ret.fields) <= Len(SchemaOf(i).fields)
            /\ Clean(i) => history[i].ret = ExpectedStruct(blocks, i)

\* A record was decoded under a schema of two definitions with one name:
\* the Struct has one field, the ByteBool decoded second.
C25_Witness ==
    \E i \in 1..Len(history) :
        /\ history[i].kind = "Struct"
        /\ Len(SchemaOf(i).fields) = 2
        /\ Cardinality(FieldNames(SchemaOf(i))) = 1
        /\ Cardinality(DOMAIN history[i].ret.fields) = 1
        /\ history[i].ret.fields[<<120>>].variant = "ByteBool"

\* A field definition whose type code Value::read_from does not know.
HasUnknownType(schema) ==
    \E x \in 1..Len(schema.fields) :
        schema.fields[x].value_type \notin (DOMAIN ValueTypes) \cup {OrdinalType}

\* C8 as claimed: a schema record with an unknown type code fails with
\* UnsupportedValueType and is not registered, and no call after an
\* UnsupportedValueType returns a record.
C8_Original ==
    /\ \A i \in 1..Len(history) :
         history[i].kind = "Schema" => ~HasUnknownType(history[i].ret)
    /\ \A k \in DOMAIN struct_defs : ~HasUnknownType(struct_defs[k])
    /\ \A i \in 1..Len(history) :
         history[i].err = "UnsupportedValueType" =>
            /\ history[i].block_type = 0
            /\ \A j \in (i + 1)..Len(history) :
                 history[j].kind \notin {"Schema", "Struct"}

\* The first field of data block i whose written value does not decode
\* (0: all decode).
FirstBad(bl, i) ==
    LET fields == bl[LastSchema(bl, i, bl[i].k)].fields
        bad == {x \in 1..Len(fields) : ~SampleDecodes(fields[x], bl[i].sv)}
    IN IF bad = {} THEN 0 ELSE CHOOSE x \in bad : \A y \in bad : x <= y

\* C8, amended: an unknown type code is rejected when a value of that type is
\* read.  A schema record is returned and registered whatever its type codes
\* (the registry holds, for every id, the schema returned last for it); a
\* call on a data block whose schema has a field of an unknown type returns
\* an error and no Struct; UnsupportedValueType is returned by calls on data
\* blocks only, and it is what a whole data block returns whose first
\* undecodable field is of an unknown type.
C8_UnknownTypeAtValue ==
    LET n == Len(history) IN
    /\ \A i \in 1..n :
         history[i].kind = "Schema" =>
            /\ history[i].ret.id \in DOMAIN struct_defs
            /\ struct_defs[history[i].ret.id]
                 = history[SchemaCallBefore(n + 1, history[i].ret.id)].ret
    /\ \A i \in 1..n :
         LET j == SchemaCallBefore(i, history[i].block_type) IN
         /\ (history[i].block_type \notin {0, -1} /\ j # 0
               /\ HasUnknownType(history[j].ret)) => history[i].kind = "Err"
         /\ history[i].err = "UnsupportedValueType" =>
              /\ history[i].block_type \notin {0, -1}
              /\ j # 0
              /\ HasUnknownType(history[j].ret)
    /\ (n >= 1 /\ Clean(n - 1) /\ n <= Len(blocks)
          /\ BlockEnd(blocks, n) <= Len(stream)
          /\ blocks[n].b = "schema") => history[n].kind = "Schema"
    /\ (n >= 1 /\ Clean(n - 1) /\ n <= Len(blocks)
          /\ BlockEnd(blocks, n) <= Len(stream)
          /\ blocks[n].b = "data"
          /\ LastSchema(blocks, n, blocks[n].k) # 0
          /\ FirstBad(blocks, n) # 0
          /\ blocks[LastSchema(blocks, n, blocks[n].k)]
               .fields[FirstBad(blocks, n)].value_type \notin {1, 39, 52, 53, 55})
         => history[n].err = "UnsupportedValueType"

\* A schema with a field of an unknown type was returned and registered, the
\* call on a data block of it failed with UnsupportedValueType, and a later
\* call returned a record.
C8_Witness ==
    \E i, j, l \in 1..Len(history) :
        /\ i < j /\ j < l
        /\ history[i].kind = "Schema"
        /\ HasUnknownType(history[i].ret)
        /\ history[j].block_type = history[i].ret.id
        /\ history[j].err = "UnsupportedValueType"
        /\ history[l].kind \in {"Schema", "Struct"}
        /\ history[i].ret.id \in DOMAIN struct_defs

\* C10: Parser::new returns a parser exactly when the stream begins with the
\* bytes 42 53 49 49 followed by a little-endian u32 of 2 or 3; with four
\* bytes that are not the magic it fails with BadMagic, with the magic and
\* four more bytes that are no such version with UnsupportedVersion, and
\* without a parser no block is read.
C10_Construction ==
    pstate # "start" =>
        LET goodMagic == Len(stream) >= 4 /\ SubSeq(stream, 1, 4) = <<66, 83, 73, 73>>
            goodVersion ==
                /\ Len(stream) >= 8
                /\ SubSeq(stream, 5, 8) \in {<<2, 0, 0, 0>>, <<3, 0, 0, 0>>}
        IN /\ pstate = "ready" <=> (goodMagic /\ goodVersion)
           /\ (Len(stream) >= 4 /\ ~goodMagic) => pstate = "BadMagic"
           /\ (goodMagic /\ Len(stream) >= 8 /\ ~goodVersion) =>
                pstate = "UnsupportedVersion"
           /\ pstate # "ready" => (history = <<>> /\ struct_defs = EmptyMap)
           /\ pstate = "ready" => pos >= 8

\* A parser was built on a version 2 stream and has read its end marker.
C10_Witness ==
    /\ pstate = "ready"
    /\ SubSeq(stream, 5, 8) = <<2, 0, 0, 0>>
    /\ Len(history) = 1
    /\ history[1].kind = "None"

----------------------------------------------------------------------------
\* The identifier codec against the texts it was given.

InAlphabet(c) == c \in (48..57) \cup (65..90) \cup (97..122) \cup {95}

LowerCased(t) == [i \in 1..Len(t) |-> IF t[i] \in 65..90 THEN t[i] + 32 ELSE t[i]]

\* C4: a text of at most 12 characters over [A-Za-z0-9_] encodes without
\* error and without overflowing 64 bits, and the encoded value decodes to
\* the text lower-cased.
C4_EncodedRoundTrip ==
    (ckind = "string" /\ Len(cin) <= 12 /\ \A i \in 1..Len(cin) : InAlphabet(cin[i]))
      => /\ cenc.err \in {"pending", ""}
         /\ ~cenc.overflow
         /\ cdec.err \in {"pending", ""}
         /\ cdec.err = "" => cdec.v = LowerCased(cin)

\* A text of 12 characters with capitals in it has made the round trip.
C4_Witness ==
    /\ ckind = "string"
    /\ Len(cin) = 12
    /\ \A i \in 1..Len(cin) : InAlphabet(cin[i])
    /\ \E i \in 1..Len(cin) : cin[i] \in 65..90
    /\ cdec.err = ""
    /\ cdec.v # cin

BeginsNameless ==
    Len(cin) >= 9 /\ SubSeq(cin, 1, 9) = <<95, 110, 97, 109, 101, 108, 101, 115, 115>>

\* C5 as claimed: every dotted text of parts of at most 12 characters over
\* [A-Za-z0-9_] parses, and renders as the text lower-cased.
C5_Original ==
    ckind = "id" =>
        /\ cenc.err \in {"pending", ""}
        /\ cdec.err \in {"pending", ""}
        /\ cdec.err = "" => cdec.v = LowerCased(cin)

\* C5, amended: a dotted text of such parts that does not begin with
\* `_nameless` parses and renders as the text lower-cased; one that begins
\* with `_nameless` is refused.
C5_IdRoundTrip ==
    ckind = "id" =>
        IF BeginsNameless
        THEN cenc.err \in {"pending", "NamelessIdInTextParse"}
        ELSE /\ cenc.err \in {"pending", ""}
             /\ cdec.err \in {"pending", ""}
             /\ cdec.err = "" => cdec.v = LowerCased(cin)

\* A text of three parts, one of them with capitals, has made the round trip.
C5_Witness ==
    /\ ckind = "id"
    /\ Cardinality({i \in 1..Len(cin) : cin[i] = 46}) = 2
    /\ \E i \in 1..Len(cin) : cin[i] \in 65..90
    /\ cdec.err = ""
    /\ cdec.v = LowerCased(cin)
    /\ cenc.v.kind = "Named"
    /\ Len(cenc.v.parts) = 3

----------------------------------------------------------------------------
\* Ordinal strings.

\* The ordinal a reader of at least 4 bytes holds.
OrdinalOf(bytes) == LE32(SubSeq(bytes, 1, 4))

\* C9: a value of type 0x37 whose u32 ordinal could be read decodes to the
\* string the field definition's table gives that ordinal; with no entry for
\* the ordinal the read fails with MissingOrdinalEntry, with no table it
\* fails with MissingOrdinalTable; bytes after the ordinal change nothing.
C9_OrdinalString ==
    (vtype = OrdinalType /\ vres.err # "pending" /\ Len(vbytes) >= 4) =>
        LET o == OrdinalOf(vbytes)
            table == vdef[1].ordinal_table
        IN IF vfield.value_type # OrdinalType
           THEN ~table.some /\ vres.err = "MissingOrdinalTable"
           ELSE /\ table.some
                /\ IF \E i \in 1..Len(vfield.table) : vfield.table[i][1] = o
                   THEN /\ vres.err = ""
                        /\ vres.v = Val("OrdinalString", table.t[o])
                        /\ table.t[o] = TableLookup(vfield.table, o)
                   ELSE vres.err = "MissingOrdinalEntry"

\* An ordinal field whose table holds the ordinal twice has been decoded,
\* with bytes left over after the ordinal.
C9_Witness ==
    /\ vtype = OrdinalType
    /\ vfield.value_type = OrdinalType
    /\ Len(vfield.table) = 2
    /\ vfield.table[1][1] = vfield.table[2][1]
    /\ Len(vbytes) > 4
    /\ vres.err = ""
    /\ vres.v = Val("OrdinalString", vfield.table[2][2])

\* A read of an ordinal the table lacks, and a read without a table.
C9_WitnessMissingEntry ==
    /\ vtype = OrdinalType
    /\ vfield.value_type = OrdinalType
    /\ vfield.table # <<>>
    /\ vres.err = "MissingOrdinalEntry"

C9_WitnessMissingTable ==
    /\ vtype = OrdinalType
    /\ vfield.value_type # OrdinalType
    /\ Len(vbytes) >= 4
    /\ vres.err = "MissingOrdinalTable"

----------------------------------------------------------------------------
\* The envelope.

Undamaged == envelope = Envelope(plain, iv)

\* C6: the decryptor applied to the envelope of a plaintext P returns
\* exactly P, a buffer of the length of P without padding bytes.
C6_ReturnsPlaintext ==
    (Undamaged /\ decrypted.err # "pending") =>
        /\ decrypted.err = ""
        /\ decrypted.v = plain

\* What the decryptor returns for such an envelope: P followed by its
\* PKCS#7 padding, as long as the ciphertext.
C6_ReturnsPadded ==
    (Undamaged /\ decrypted.err # "pending") =>
        /\ decrypted.err = ""
        /\ decrypted.v = Pkcs7_pad(plain)
        /\ Len(decrypted.v) = Len(envelope) - 56
        /\ Len(decrypted.v) > Len(plain)

\* An undamaged envelope of a 17-byte plaintext has been decrypted.
C6_Witness ==
    /\ Undamaged
    /\ Len(plain) = BlockSize + 1
    /\ decrypted.err = ""
    /\ Len(decrypted.v) = 2 * BlockSize

----------------------------------------------------------------------------
\* The archive.

\* The entry the open reader was made for: where its body begins.
BodyStart == areader.fpos - areader.i

BodyWithinFile == BodyStart + areader.length <= Len(afile)

\* C11: the stream open_entry returns for an UncompressedFile entry whose
\* body lies within the file hands out the file bytes at
\* [offset, offset + size) and nothing else: after any reads it has handed
\* out the first i of them, never more than size, and at the end of the
\* stream it has handed out all size of them.  Buffers of 0..MaxBuf bytes
\* and short reads of the file are taken in any order.
C11_UncompressedBody ==
    (areader.kind = "UncompressedReader" /\ BodyWithinFile) =>
        /\ \E h \in DOMAIN entries :
             /\ entries[h].offset = BodyStart
             /\ entries[h].size = areader.length
             /\ entries[h].entry_type = "UncompressedFile"
        /\ areader.i <= areader.length
        /\ aout = SubSeq(afile, BodyStart + 1, BodyStart + areader.i)
        /\ areader.eof =>
             /\ Len(aout) = areader.length
             /\ aout = SubSeq(afile, BodyStart + 1, BodyStart + areader.length)

\* An entry of five bytes, the last three of them in the entry table, has
\* been read to the end of the stream.
C11_Witness ==
    /\ areader.kind = "UncompressedReader"
    /\ areader.eof
    /\ areader.length = 5
    /\ BodyStart = 24
    /\ aout = <<14, 15>> \o SubSeq(afile, 27, 29)

\* C12 as claimed: an archive whose entry table holds a hash twice does not
\* load, and a loaded archive has one index entry per descriptor.
C12_DuplicateEntry ==
    (astate = "loaded" /\ afile = WArchive(adescs)) =>
        /\ \A i, j \in 1..Len(adescs) : adescs[i].hash = adescs[j].hash => i = j
        /\ Cardinality(DOMAIN entries) = Len(adescs)

\* What load_from_file does with a repeated hash: the archive loads, and the
\* index holds the last descriptor written for each hash.
C12_LastDescriptorWins ==
    (afile = WArchive(adescs) /\ astate # "start"
       /\ \A i \in 1..Len(adescs) : adescs[i].type_id \in 0..7) =>
        /\ astate = "loaded"
        /\ DOMAIN entries = {adescs[i].hash : i \in 1..Len(adescs)}
        /\ \A i \in 1..Len(adescs) :
             (\A j \in (i + 1)..Len(adescs) : adescs[j].hash # adescs[i].hash) =>
                /\ entries[adescs[i].hash].offset = adescs[i].offset
                /\ entries[adescs[i].hash].size = adescs[i].size

\* An archive of two descriptors with one hash has been loaded.
C12_Witness ==
    /\ astate = "loaded"
    /\ Len(adescs) = 2
    /\ adescs[1].hash = adescs[2].hash
    /\ adescs[1] # adescs[2]
    /\ Cardinality(DOMAIN entries) = 1

ReaderReturned == areader.kind \in {"UncompressedReader", "CompressedReader"}

\* C21: open_entry returns a stream only for a hash present in the index
\* whose entry type is UncompressedFile or CompressedFile, and a stream of
\* that kind; for a directory-entry type it fails with UnsupportedEntryType
\* and for a hash that is not in the index it fails with NoSuchEntry, in
\* both cases without a reader.
C21_ReaderOnlyForFiles ==
    aopened.n > 0 =>
        IF aopened.hash \notin DOMAIN entries
        THEN areader.kind = "NoSuchEntry"
        ELSE CASE entries[aopened.hash].entry_type = "UncompressedFile" ->
                    areader.kind = "UncompressedReader"
               [] entries[aopened.hash].entry_type = "CompressedFile" ->
                    areader.kind = "CompressedReader"
               [] OTHER ->
                    /\ entries[aopened.hash].entry_type
                         \in {"UncompressedDirEntries", "CompressedDirEntries"}
                    /\ areader.kind = "UnsupportedEntryType"

\* A directory entry was opened after a file entry was partly read: the
\* call failed.
C21_Witness ==
    /\ aopened.n = 2
    /\ aopened.hash \in DOMAIN entries
    /\ entries[aopened.hash].entry_type = "UncompressedDirEntries"
    /\ \E h \in DOMAIN entries :
         /\ entries[h].entry_type = "UncompressedFile"
         /\ aopened.fpos > entries[h].offset
         /\ aopened.fpos <= entries[h].offset + entries[h].size
    /\ areader.kind = "UnsupportedEntryType"

\* A hash that is not in the index was opened.
C21_WitnessNoSuchEntry ==
    /\ aopened.n > 0
    /\ aopened.hash \notin DOMAIN entries
    /\ DOMAIN entries # {}
    /\ areader.kind = "NoSuchEntry"

\* C24: whatever was opened and read before, the stream a new open_entry
\* returns starts at the offset of its entry: the file is at offset + i
\* after i bytes were handed out, and the first byte handed out by an
\* uncompressed stream is the file byte at the offset.
C24_EachOpenSeeks ==
    (aopened.n > 0 /\ ReaderReturned) =>
        /\ areader.fpos - areader.i = entries[aopened.hash].offset
        /\ (aout # <<>> /\ entries[aopened.hash].offset < Len(afile)) =>
              aout[1] = afile[entries[aopened.hash].offset + 1]

\* The second open found the file in the middle of another entry, partly
\* read, away from the offset of the entry it opens, and the first byte of
\* the new stream has been read.
C24_Witness ==
    /\ aopened.n = 2
    /\ ReaderReturned
    /\ \E h \in DOMAIN entries \ {aopened.hash} :
         /\ entries[h].entry_type = "UncompressedFile"
         /\ aopened.fpos > entries[h].offset
         /\ aopened.fpos < entries[h].offset + entries[h].size
    /\ aopened.fpos # entries[aopened.hash].offset
    /\ aout # <<>>
    /\ aout[1] = afile[entries[aopened.hash].offset + 1]

\* The only entry was opened again after it was read to the end.
C24_WitnessReopened ==
    /\ aopened.n = 2
    /\ DOMAIN entries = {aopened.hash}
    /\ areader.kind = "UncompressedReader"
    /\ areader.length > 0
    /\ aopened.fpos = entries[aopened.hash].offset + areader.length
    /\ Len(aout) = areader.length

\* C22: what the decryptor returns, plaintext or error, depends on the
\* signature, the IV and the ciphertext only: the result for the envelope
\* is the result for every envelope that differs from it in the 32 bytes
\* of HMAC, in the declared length, or in both.
C22_HmacAndLengthIgnored ==
    (decrypted.err # "pending" /\ Len(envelope) >= HeaderSize) =>
        \A hmac \in Hmacs, len \in DeclaredLens(plain) \cup {Len(envelope)} :
            Decryptor_decrypt(Retagged(envelope, hmac, len)) = decrypted

\* An envelope whose HMAC bytes are not zero and whose declared length is
\* not the length of its plaintext has been decrypted.
C22_Witness ==
    /\ decrypted.err = ""
    /\ Len(plain) = 17
    /\ SubSeq(envelope, 5, 36) # [i \in 1..32 |-> 0]
    /\ SubSeq(envelope, 53, 56) = W32(0)
    /\ decrypted = Decryptor_decrypt(Envelope(plain, iv))

\* The decryption of a retagged envelope with a damaged last block failed
\* as it fails for the envelope as written.
C22_WitnessError ==
    /\ decrypted.err = "DecryptionFailed"
    /\ SubSeq(envelope, 5, 36) # [i \in 1..32 |-> 0]
    /\ SubSeq(envelope, 53, 56) # W32(Len(plain))
    /\ Decryptor_decrypt(Retagged(envelope, [i \in 1..32 |-> 0], Len(plain))).err
         = "DecryptionFailed"

----------------------------------------------------------------------------
\* Identifiers compared (SpecId).

SameText == irel.ta.err = "" /\ irel.tb.err = "" /\ irel.ta.v = irel.tb.v

\* C13: two IDs are equal, and hash equally, if and only if their rendered
\* texts are identical, and cmp(a, b) is Equal exactly when a == b.
C13_EqualityOnText ==
    irel.done /\ irel.cmp # "Panic" =>
        /\ irel.eq <=> SameText
        /\ irel.hash_eq <=> SameText
        /\ irel.cmp = "Equal" <=> irel.eq

\* What the code keeps of it: equal IDs render the same text and compare
\* Equal, and the ordering is the ordering of the texts.
C13_EqualImpliesSameText ==
    irel.done /\ irel.cmp # "Panic" =>
        /\ irel.eq => SameText /\ irel.cmp = "Equal" /\ irel.hash_eq
        /\ irel.cmp = "Equal" <=> SameText

\* Two IDs that differ and compare Equal.
C13_Witness ==
    irel.done /\ irel.cmp = "Equal" /\ ~irel.eq /\ ~irel.hash_eq

\* A Named ID of five parts and a Nameless ID with the same text.
C13_WitnessAcrossVariants ==
    /\ irel.done /\ irel.cmp = "Equal"
    /\ ids[1].v.kind = "Nameless" /\ ids[2].v.kind = "Named"

\* C14: every Named ID the core produced, from the wire or from a text, has
\* between 1 and 254 parts.
C14_NamedNonEmpty ==
    \A i \in 1..Len(ids) :
        ids[i].err = "" /\ ids[i].v.kind = "Named" =>
            Len(ids[i].v.parts) \in 1..254

\* What the code keeps of it: a Named ID from the wire has as many parts as
\* its length byte says, 0 included, and one from a text has at least one.
C14_PartsAsWritten ==
    \A i \in 1..Len(ids) :
        ids[i].err = "" /\ ids[i].v.kind = "Named" =>
            IF isrc[i].from = "wire"
            THEN Len(ids[i].v.parts) = isrc[i].bytes[1]
                 /\ isrc[i].bytes[1] \in 0..254
            ELSE Len(ids[i].v.parts) = Len(split(isrc[i].bytes))
                 /\ Len(ids[i].v.parts) >= 1

\* A Named ID without parts, read from the wire.
C14_Witness ==
    \E i \in 1..Len(ids) :
        /\ isrc[i].from = "wire"
        /\ ids[i].err = "" /\ ids[i].v.kind = "Named" /\ ids[i].v.parts = <<>>

\* The digits 0-9 and a-f.
IsLowerHex(c) == c \in 48..57 \/ c \in 97..102

\* The number a text of hexadecimal digits stands for.
RECURSIVE HexValue(_)
HexValue(str) ==
    IF str = <<>> THEN 0
    ELSE 16 * HexValue(SubSeq(str, 1, Len(str) - 1))
           + (IF str[Len(str)] <= 57 THEN str[Len(str)] - 48
              ELSE str[Len(str)] - 87)

C15_WitnessLeadingZero ==
    /\ irel.done /\ ids[1].v.kind = "Nameless"
    /\ ids[1].v.parts[1][1] = 0 /\ ids[1].v.parts[1][2] = 18
    /\ SubSeq(irel.ta.v, 10, 13) = <<46, 48, 49, 50>>

\* A part whose base-38 numeral has a digit of 0 below its leading digit.
RECURSIVE ZeroDigit(_)
ZeroDigit(u) ==
    /\ u # Zero64
    /\ \/ DivMod38(u).r = 0
       \/ ZeroDigit(DivMod38(u).q)

Rendered(i) == IF i = 1 THEN irel.ta ELSE irel.tb

\* C26 as claimed: an ID read from the wire is rendered without a failure,
\* to dotted parts over the 37 symbols of the alphabet.
C26_RenderingNeverFails ==
    irel.done =>
        \A i \in 1..2 :
            (isrc[i].from = "wire" /\ ids[i].v.kind = "Named") =>
                /\ Rendered(i).err = ""
                /\ \A x \in 1..Len(Rendered(i).v) :
                     Rendered(i).v[x] = Dot
                       \/ \E c \in 1..37 : Rendered(i).v[x] = CHARTABLE[c]

\* What to_string does with a Named ID from the wire: it panics exactly when
\* a part has a digit of 0, and otherwise gives dotted parts over the
\* alphabet; a Nameless ID is always rendered.
C26_PanicsOnZeroDigit ==
    irel.done =>
        \A i \in 1..2 :
            isrc[i].from = "wire" =>
                IF ids[i].v.kind = "Named"
                     /\ \E k \in 1..Len(ids[i].v.parts) : ZeroDigit(ids[i].v.parts[k])
                THEN Rendered(i).err = "Panic"
                ELSE /\ Rendered(i).err = ""
                     /\ \A x \in 1..Len(Rendered(i).v) :
                          Rendered(i).v[x] = Dot
                            \/ \E c \in 1..37 : Rendered(i).v[x] = CHARTABLE[c]

\* A Named ID of the one part 38 was read from the wire, and rendering it
\* panicked.
C26_Witness ==
    /\ irel.done
    /\ isrc[1] = Wire(<<1, 38, 0, 0, 0, 0, 0, 0, 0>>)
    /\ ids[1].v.kind = "Named"
    /\ irel.ta.err = "Panic"

\* The part 2^64 - 1 was rendered.
C26_WitnessLargest ==
    /\ irel.done
    /\ isrc[1] = Wire(<<1, 255, 255, 255, 255, 255, 255, 255, 255>>)
    /\ irel.ta.err = ""
    /\ Len(irel.ta.v) = 13

----------------------------------------------------------------------------
\* The tokens of the lexer (SpecLexer).

\* Where the token of a call begins: behind the whitespace and the comments
\* from the position the call started at.
TokenStart(at) == skip_whitespace(lsrc, at)

\* The end of the maximal run of [A-Za-z0-9._] that begins at p.
RECURSIVE RunEnd(_)
RunEnd(p) ==
    IF p < Len(lsrc) /\ IsIdentChar(lsrc[p + 1]) THEN RunEnd(p + 1) ELSE p

RunAt(p) == SubSeq(lsrc, p + 1, RunEnd(p))

\* The call begins at a run.
AtRun(h) ==
    /\ TokenStart(h.at).err = ""
    /\ RunEnd(TokenStart(h.at).p) > TokenStart(h.at).p

RunKind(run) ==
    IF run = <<116, 114, 117, 101>> \/ run = <<102, 97, 108, 115, 101>>
    THEN "Boolean"
    ELSE IF \E i \in 1..Len(run) : IsLetter(run[i]) THEN "Identifier"
    ELSE IF \E i \in 1..Len(run) : run[i] = Dot THEN "Float"
    ELSE "Integer"

IsToken(h, t) == h.opt = "Some" /\ h.err = "" /\ h.v.t = t

\* C19: for a maximal run of bytes from [A-Za-z0-9._] the lexer emits one
\* token: Boolean for true and false, else Identifier if the run has a
\* letter or underscore, else Float if it has a dot, else Integer.
C19_OneTokenPerRun ==
    \A k \in 1..Len(lhist) :
        AtRun(lhist[k]) =>
            /\ IsToken(lhist[k], RunKind(RunAt(TokenStart(lhist[k].at).p)))
            /\ lhist[k].to = RunEnd(TokenStart(lhist[k].at).p)

\* A text of digits and dots f32::from_str takes.
IsNumber(run) ==
    RunKind(run) = "Float" => Len(split(run)) = 2 /\ Len(run) >= 2

\* What the code keeps of it: a run with a byte behind it gives its one
\* token when it is a number f32::from_str takes or no number at all, and
\* an error otherwise; a run that ends the stream gives no token.
C19_RunBeforeAByte ==
    \A k \in 1..Len(lhist) :
        AtRun(lhist[k]) =>
            LET start == TokenStart(lhist[k].at).p IN
            IF RunEnd(start) = Len(lsrc)
            THEN lhist[k].opt = "None" /\ lhist[k].to = Len(lsrc)
            ELSE IF IsNumber(RunAt(start))
            THEN /\ IsToken(lhist[k], RunKind(RunAt(start)))
                 /\ lhist[k].to = RunEnd(start)
            ELSE lhist[k].opt = "Some" /\ lhist[k].err = "ParseFloatError"

\* A run of letters at the end of the stream, and no token for it.
C19_Witness ==
    \E k \in 1..Len(lhist) :
        /\ AtRun(lhist[k])
        /\ RunEnd(TokenStart(lhist[k].at).p) = Len(lsrc)
        /\ RunKind(RunAt(TokenStart(lhist[k].at).p)) = "Identifier"
        /\ lhist[k].opt = "None"

\* A run with a dot that is no number, and an error for it.
C19_WitnessNoFloat ==
    \E k \in 1..Len(lhist) :
        /\ AtRun(lhist[k])
        /\ RunEnd(TokenStart(lhist[k].at).p) < Len(lsrc)
        /\ lhist[k].opt = "Some" /\ lhist[k].err = "ParseFloatError"

\* The call begins at a run that extends to the last byte of the stream.
AtLastRun(h) == AtRun(h) /\ RunEnd(TokenStart(h.at).p) = Len(lsrc)

\* The call begins at a quoted string of plain characters whose closing
\* quote is the last byte of the stream.
AtLastQuoted(h) ==
    /\ TokenStart(h.at).err = ""
    /\ TokenStart(h.at).p + 2 <= Len(lsrc)
    /\ lsrc[TokenStart(h.at).p + 1] = 34
    /\ lsrc[Len(lsrc)] = 34
    /\ \A i \in (TokenStart(h.at).p + 2)..(Len(lsrc) - 1) :
           lsrc[i] < 128 /\ lsrc[i] \notin {34, 92}

\* C28 as claimed: an identifier, a number or a quoted string is given as a
\* token wherever it stands; one that extends to the last byte of the
\* stream is given before the end of the stream is signalled.
C28_LastTokenEmitted ==
    \A k \in 1..Len(lhist) :
        /\ (AtLastRun(lhist[k]) /\ IsNumber(RunAt(TokenStart(lhist[k].at).p))) =>
              IsToken(lhist[k], RunKind(RunAt(TokenStart(lhist[k].at).p)))
        /\ AtLastQuoted(lhist[k]) => IsToken(lhist[k], "QuotedString")

\* What the lexer does at the last byte: a quoted string that ends there is
\* given as a token; for a run of [A-Za-z0-9._] that ends there the call
\* consumes the run and signals the end of the stream, whatever the run is.
C28_LastRunDropped ==
    \A k \in 1..Len(lhist) :
        /\ AtLastRun(lhist[k]) =>
              /\ lhist[k].opt = "None"
              /\ lhist[k].to = Len(lsrc)
        /\ AtLastQuoted(lhist[k]) =>
              /\ IsToken(lhist[k], "QuotedString")
              /\ lhist[k].v.v = SubSeq(lsrc, TokenStart(lhist[k].at).p + 2, Len(lsrc) - 1)
              /\ lhist[k].to = Len(lsrc)

\* The stream is a colon and the number 10: the colon was given, and the
\* call on the number signalled the end of the stream.
C28_Witness ==
    /\ lsrc = <<58, 49, 48>>
    /\ Len(lhist) = 2
    /\ IsToken(lhist[1], "Colon")
    /\ AtLastRun(lhist[2])
    /\ lhist[2].opt = "None"

\* A quoted string that ends the stream, given as a token.
C28_WitnessQuoted ==
    /\ lsrc = <<34, 110, 34>>
    /\ Len(lhist) = 1
    /\ IsToken(lhist[1], "QuotedString")
    /\ lhist[1].v.v = <<110>>

\* C29 as claimed: every call of next() consumes at least one byte or
\* signals the end of the stream, so that calling it until the end of the
\* stream, errors passed over, comes to an end.
C29_EveryCallAdvances ==
    \A k \in 1..Len(lhist) :
        lhist[k].opt = "None" \/ lhist[k].to > lhist[k].at

\* What the lexer does: every call but one that finds an unexpected byte
\* advances or signals the end; the unexpected byte is looked at and left
\* in the stream, and every call after it finds it again, consumes nothing
\* and returns the same error.
C29_StuckAtUnexpectedByte ==
    \A k \in 1..Len(lhist) :
        IF lhist[k].opt = "Some" /\ lhist[k].err = "UnexpectedByte"
        THEN /\ lhist[k].to < Len(lsrc)
             /\ lhist[k].to >= lhist[k].at
             /\ \A j \in (k + 1)..Len(lhist) :
                   /\ lhist[j].at = lhist[k].to
                   /\ lhist[j].to = lhist[k].to
                   /\ lhist[j].opt = "Some"
                   /\ lhist[j].err = "UnexpectedByte"
        ELSE lhist[k].opt = "None" \/ lhist[k].to > lhist[k].at

\* The stream n - n: after the identifier three calls found the minus sign,
\* each failed and none moved.
C29_Witness ==
    /\ lsrc = <<110, 45, 110>>
    /\ Len(lhist) = 4
    /\ IsToken(lhist[1], "Identifier")
    /\ \A k \in 2..4 :
         /\ lhist[k].at = 1 /\ lhist[k].to = 1
         /\ lhist[k].opt = "Some" /\ lhist[k].err = "UnexpectedByte"

\* The call begins at a byte 0xEF.
AtEF(h) ==
    /\ TokenStart(h.at).err = ""
    /\ TokenStart(h.at).p < Len(lsrc)
    /\ lsrc[TokenStart(h.at).p + 1] = 239

\* C20: a byte order mark is consumed only as the first three bytes of the
\* stream; 0xEF at a later token position is reported as UnexpectedByte.
C20_BomOnlyAtStart ==
    \A k \in 1..Len(lhist) :
        AtEF(lhist[k]) /\ TokenStart(lhist[k].at).p > 0 =>
            lhist[k].opt = "Some" /\ lhist[k].err = "UnexpectedByte"

\* What the code does: at every token position EF BB BF is skipped and the
\* call goes on behind it, and 0xEF followed by other bytes is an error of
\* expect_char!.
C20_BomAtAnyToken ==
    \A k \in 1..Len(lhist) :
        AtEF(lhist[k]) =>
            LET start == TokenStart(lhist[k].at).p IN
            IF start + 3 <= Len(lsrc)
               /\ SubSeq(lsrc, start + 1, start + 3) = <<239, 187, 191>>
            THEN Match(Lexer_next(lsrc, start + 3), LAMBDA r :
                 /\ lhist[k].opt = r.opt /\ lhist[k].err = r.err
                 /\ lhist[k].v = r.v /\ lhist[k].to = r.p)
            ELSE \/ lhist[k].opt = "None"
                 \/ lhist[k].opt = "Some" /\ lhist[k].err = "ExpectedChar"

\* A byte order mark behind a token, skipped, and the token behind it given.
C20_Witness ==
    \E k \in 1..Len(lhist) :
        /\ AtEF(lhist[k]) /\ TokenStart(lhist[k].at).p > 0
        /\ lhist[k].opt = "Some" /\ lhist[k].err = ""

\* A byte order mark as the first three bytes, skipped.
C20_WitnessAtStart ==
    /\ Len(lhist) >= 1
    /\ Len(lsrc) >= 3 /\ SubSeq(lsrc, 1, 3) = <<239, 187, 191>>
    /\ lhist[1].opt = "Some" /\ lhist[1].err = "" /\ lhist[1].to > 3

----------------------------------------------------------------------------
\* The structs of the text parser (SpecText).

\* The elements written for the array field name of a struct, in order.
ElementsOf(d, name) ==
    LET written == SelectSeq(FieldsOf(d), LAMBDA f : f.is_array /\ f.name = name)
    IN [i \in 1..Len(written) |-> written[i].value]

ArrayNames(d) ==
    {FieldsOf(d)[i].name : i \in {j \in 1..Len(d.fields) : FieldsOf(d)[j].is_array}}

\* The array variant the first element of a list of elements stands for.
ArrayVariantOf(variant) ==
    IF variant = "String" THEN "StringArray"
    ELSE IF variant = "UInt64" THEN "UInt64Array"
    ELSE "none"

\* All elements are of the variant of the first, a String or a UInt64.
Homogeneous(elems) ==
    /\ ArrayVariantOf(elems[1].variant) # "none"
    /\ \A i \in 1..Len(elems) : elems[i].variant = elems[1].variant

\* The last value written for the field name that is no array element.
LastScalar(d, name) ==
    LET written == SelectSeq(FieldsOf(d), LAMBDA f : ~f.is_array /\ f.name = name)
    IN written[Len(written)].value

\* The fields of a struct whose arrays are homogeneous.
ExpectedFields(d) ==
    [name \in {FieldsOf(d)[i].name : i \in 1..Len(d.fields)} |->
        IF name \in ArrayNames(d)
        THEN Val(ArrayVariantOf(ElementsOf(d, name)[1].variant),
                 [i \in 1..Len(ElementsOf(d, name)) |-> ElementsOf(d, name)[i].v])
        ELSE LastScalar(d, name)]

\* A struct as written that the parser has to yield a Struct for.
Yielding(d) ==
    /\ ID_try_from(d.id).err = ""
    /\ \A name \in ArrayNames(d) : Homogeneous(ElementsOf(d, name))

IsStruct(h) == h.opt = "Some" /\ h.err = ""

SameValue(a, b) == a.variant = b.variant /\ a.v = b.v

SameStruct(a, b) ==
    /\ a.id = b.id
    /\ a.struct_name = b.struct_name
    /\ DOMAIN a.fields = DOMAIN b.fields
    /\ \A name \in DOMAIN a.fields : SameValue(a.fields[name], b.fields[name])

\* Call k reads struct k of the text, written whole: the calls before it
\* yielded theirs.
Aligned(k) ==
    /\ k <= Len(thist)
    /\ k <= Len(tdoc.structs)
    /\ tdoc.tail = "cut" => k < Len(tdoc.structs)
    /\ \A j \in 1..(k - 1) : IsStruct(thist[j])

\* C16: the parser yields one Struct per struct written between the braces
\* of the wrapper, in the order of the text, then signals "no more records"
\* at the closing brace of the wrapper, and again at every further call.
C16_StructsThenEnd ==
    (tdoc.tail \in {"closed", "more"}
       /\ \A i \in 1..Len(tdoc.structs) : Yielding(tdoc.structs[i]))
    => \A k \in 1..Len(thist) :
          IF k <= Len(tdoc.structs)
          THEN /\ IsStruct(thist[k])
               /\ SameStruct(thist[k].v,
                             Struct(ID_try_from(tdoc.structs[k].id).v,
                                    tdoc.structs[k].struct_name,
                                    ExpectedFields(tdoc.structs[k])))
          ELSE thist[k].opt = "None"

\* Two structs yielded in their order, then "no more records" twice, with
\* another struct behind the closing brace of the wrapper.
C16_Witness ==
    /\ Len(tdoc.structs) = 2 /\ tdoc.tail = "more"
    /\ Len(thist) = 4
    /\ IsStruct(thist[1]) /\ thist[1].v.struct_name = <<102, 111, 111>>
    /\ IsStruct(thist[2]) /\ thist[2].v.struct_name = <<98, 97, 114>>
    /\ thist[3].opt = "None" /\ thist[4].opt = "None"

\* C17: the elements name[]: value of a struct are collected in the order
\* they occur into one array field, of the variant of the first element
\* (StringArray for a String, UInt64Array for a UInt64); when a later
\* element is of another variant, or the first is a Single or a ByteBool,
\* the struct fails with an error.
C17_ArrayFields ==
    \A k \in 1..Len(thist) :
        (Aligned(k) /\ ID_try_from(tdoc.structs[k].id).err = "") =>
            IF \A name \in ArrayNames(tdoc.structs[k]) :
                   Homogeneous(ElementsOf(tdoc.structs[k], name))
            THEN /\ IsStruct(thist[k])
                 /\ \A name \in ArrayNames(tdoc.structs[k]) :
                       /\ name \in DOMAIN thist[k].v.fields
                       /\ SameValue(thist[k].v.fields[name],
                                    ExpectedFields(tdoc.structs[k])[name])
            ELSE thist[k].opt = "Some" /\ thist[k].err \in {"MixedArray", "TODO"}

\* i[]: "x", b: "hi", i[]: n yielded as the StringArray x, n.
C17_Witness ==
    /\ Aligned(1)
    /\ Len(tdoc.structs[1].fields) = 3
    /\ ~FieldsOf(tdoc.structs[1])[2].is_array
    /\ IsStruct(thist[1])
    /\ <<105>> \in DOMAIN thist[1].v.fields
    /\ SameValue(thist[1].v.fields[<<105>>],
                 Val("StringArray", << <<120>>, <<110>> >>))

\* i[]: 1, i[]: "x" failing as a mixed array.
C17_WitnessMixed ==
    /\ Aligned(1)
    /\ Len(tdoc.structs[1].fields) >= 2
    /\ FieldsOf(tdoc.structs[1])[1].value.variant = "UInt64"
    /\ FieldsOf(tdoc.structs[1])[2].value.variant = "String"
    /\ FieldsOf(tdoc.structs[1])[2].is_array
    /\ thist[1].opt = "Some" /\ thist[1].err = "MixedArray"

\* i[]: 1.5 first, failing.
C17_WitnessSingle ==
    /\ Aligned(1)
    /\ Len(tdoc.structs[1].fields) >= 1
    /\ FieldsOf(tdoc.structs[1])[1].value.variant = "Single"
    /\ thist[1].opt = "Some" /\ thist[1].err = "TODO"

\* .a.b
DotADotB == <<46, 97, 46, 98>>

\* C18: a struct whose id is written with a leading dot, .a.b, is emitted
\* with a Named ID of the names behind the dots, the two parts a and b, and
\* no empty part.
C18_LeadingDot ==
    \A k \in 1..Len(thist) :
        (Aligned(k) /\ tdoc.structs[k].id = DotADotB) =>
            /\ IsStruct(thist[k])
            /\ thist[k].v.id = Named(<<Encoded(<<97>>), Encoded(<<98>>)>>)

\* What the code emits: the empty text before the first dot is a part, the
\* encoded value 0, and the ID renders as it was written.
C18_LeadingDotKeepsEmptyPart ==
    \A k \in 1..Len(thist) :
        (Aligned(k) /\ tdoc.structs[k].id = DotADotB) =>
            /\ IsStruct(thist[k])
            /\ thist[k].v.id = Named(<<Zero64, Encoded(<<97>>), Encoded(<<98>>)>>)
            /\ ID_to_string(thist[k].v.id) = [err |-> "", v |-> DotADotB]

\* foo : .a.b emitted with an ID of three parts.
C18_Witness ==
    /\ Aligned(1)
    /\ tdoc.structs[1].id = DotADotB
    /\ IsStruct(thist[1])
    /\ Len(thist[1].v.id.parts) = 3

\* The structs before the last are yielded and the id of the last is read.
ReadsIntoLast ==
    /\ tdoc.structs # <<>>
    /\ \A i \in 1..(Len(tdoc.structs) - 1) : Yielding(tdoc.structs[i])
    /\ ID_try_from(tdoc.structs[Len(tdoc.structs)].id).err = ""

\* C27 as claimed: in a text that ends before the closing brace of the
\* wrapper, between two structs or inside one, no call signals "no more
\* records".
C27_EndOnlyAtClosingBrace ==
    tdoc.tail \in {"open", "cut"} =>
        \A k \in 1..Len(thist) : thist[k].opt # "None"

\* What the parser does at the end of such a text: when the text ends
\* between two structs the call there returns the error "unexpected end of
\* token stream"; when it ends inside a struct the call reading that struct
\* signals "no more records", and the calls after it return that error.
C27_EndInsideStructIsEnd ==
    /\ (tdoc.tail = "open" /\ \A i \in 1..Len(tdoc.structs) : Yielding(tdoc.structs[i])) =>
          \A k \in 1..Len(thist) :
              IF k <= Len(tdoc.structs) THEN IsStruct(thist[k])
              ELSE thist[k].opt = "Some" /\ thist[k].err = "UnexpectedEnd"
    /\ (tdoc.tail = "cut" /\ ReadsIntoLast) =>
          \A k \in 1..Len(thist) :
              IF k < Len(tdoc.structs) THEN IsStruct(thist[k])
              ELSE IF k = Len(tdoc.structs) THEN thist[k].opt = "None"
              ELSE thist[k].opt = "Some" /\ thist[k].err = "UnexpectedEnd"

\* The text ends after the field of its second struct: the first struct was
\* yielded, the call on the second signalled "no more records" and the
\* call after it failed.
C27_Witness ==
    /\ tdoc.tail = "cut"
    /\ Len(tdoc.structs) = 2
    /\ tdoc.structs[2].fields = <<3>>
    /\ tsrc[Len(tsrc)] = 10
    /\ Len(thist) = 3
    /\ IsStruct(thist[1])
    /\ thist[2].opt = "None"
    /\ thist[3].err = "UnexpectedEnd"

\* The text ends behind its one struct, and the call there failed.
C27_WitnessBetweenStructs ==
    /\ tdoc.tail = "open"
    /\ Len(tdoc.structs) = 1
    /\ Len(thist) = 2
    /\ IsStruct(thist[1])
    /\ thist[2].opt = "Some" /\ thist[2].err = "UnexpectedEnd"

----------------------------------------------------------------------------
\* The index of a save (SpecSave).

\* The data blocks among the first n written.
DataBlocks(n) == {i \in 1..n : blocks[i].b = "data"}

\* The index the first n blocks written stand for: for every ID of a data
\* block among them the Struct of the last data block with that ID.
IndexUpTo(n) ==
    [id \in {blocks[i].id : i \in DataBlocks(n)} |->
        ExpectedStruct(blocks,
                       CHOOSE i \in DataBlocks(n) :
                           /\ blocks[i].id = id
                           /\ \A j \in DataBlocks(n) : blocks[j].id = id => j <= i)]

\* C30: when GameSave::new has read a stream to its end marker, the index
\* holds one Struct per distinct ID among the data blocks of the stream,
\* for each ID the Struct of the last data block with it, and nothing for
\* the schema blocks; while it reads, the index is that of the blocks read.
C30_IndexLastPerId ==
    /\ sstate = "loop" => objects = IndexUpTo(Len(history))
    /\ sstate = "Ok" =>
         /\ cut = 0
         /\ Len(history) = Len(blocks) + 1
         /\ objects = IndexUpTo(Len(blocks))
         /\ Cardinality(DOMAIN objects)
              = Cardinality({blocks[i].id : i \in DataBlocks(Len(blocks))})
         /\ \A i \in DataBlocks(Len(blocks)) :
              get_block_by_id(objects, blocks[i].id).some

\* A save of a schema and two data blocks with one ID was read: the index
\* has one Struct, that of the second.
C30_Witness ==
    /\ sstate = "Ok"
    /\ Len(blocks) = 3
    /\ blocks[1].b = "schema" /\ blocks[2].b = "data" /\ blocks[3].b = "data"
    /\ blocks[2].id = blocks[3].id
    /\ blocks[2].sv = 1 /\ blocks[3].sv = 2
    /\ Cardinality(DOMAIN objects) = 1
    /\ objects[blocks[3].id] = emitted[2]
    /\ emitted[1] # emitted[2]

\* A save of two data blocks with different IDs: two Structs.
C30_WitnessTwoIds ==
    /\ sstate = "Ok"
    /\ Len(blocks) = 3
    /\ Cardinality(DOMAIN objects) = 2

====
